---- MODULE Spec2Model ----
(***************************************************************************)
(* Model of the dealership paperwork core: stage classification            *)
(* (determineStage), required-document resolution (getRequiredForms) and   *)
(* per-document readiness validation (getFormReadiness), all of            *)
(* src/services/geminiService.ts, over the form catalog ALL_FORMS of       *)
(* src/constants.ts; the field preview (generatePreviewData) and the       *)
(* document generation (generatePdfBytes) of src/services/messageService.ts *)
(* with the template reads they make, and the batch generation of the      *)
(* preview modal (handleGenerate, src/components/FormsPanel.tsx).          *)
(***************************************************************************)
EXTENDS Integers, Sequences, FiniteSets, TLC

VARIABLES customer, catalog, call, ret,
          modalCustomer, pdfTemplates, clock, previewCalls,
          forms, modal, gen,
          util, db, app, tasks, faults

vars == <<customer, catalog, call, ret,
          modalCustomer, pdfTemplates, clock, previewCalls,
          forms, modal, gen,
          util, db, app, tasks, faults>>

\* The state of the stage/forms/readiness calls, of the preview calls, of
\* document generation, of the calls of the utilities and of the chat
\* application with its database.
formVars == <<customer, catalog, call, ret>>
previewVars == <<modalCustomer, pdfTemplates, clock, previewCalls>>
genVars == <<forms, modal, gen>>
utilVars == <<util>>
appVars == <<db, app, tasks, faults>>

(***************************************************************************)
(* Bounds and input domains                                                *)
(***************************************************************************)

\* Largest number of entries of financial_info.references that is enumerated.
MaxRefs == 1

\* The longest sequence of merges into one profile.
MaxMerges == 2

\* The most message loads, text messages and image uploads of a session.
MaxLoads == 2
MaxSends == 1
MaxUploads == 1

\* The most reads, writes, extractions and file reads that fail in a session.
MaxFaults == 1

\* String leaves are '' (the "unknown" sentinel) or some non-empty text.
StrVals == {"", "x"}

PurchaseTypes == {"", "new", "used"}

StoredStages == {"initial_contact", "financing", "closing", "ongoing"}

\* A reference entry {name, phone, relationship}; its content is never read
\* by the operations modelled here, only the length of the list is.
RefEntry == [name |-> "x", phone |-> "x", relationship |-> "x"]

RefLists == { [i \in 1..n |-> RefEntry] : n \in 0..MaxRefs }

(***************************************************************************)
(* CustomerProfile (the fields read by the modelled operations)            *)
(***************************************************************************)

CustomerProfile ==
  [ personal_info :
      [ full_name : StrVals, phone : StrVals, email : StrVals,
        address : [ full_address : StrVals ],
        drivers_license : [ number : StrVals, expiration : StrVals ] ],
    vehicle_info :
      [ interest_vehicle : [ make : StrVals, model : StrVals, vin : StrVals ],
        trade_vehicle : [ vin : StrVals, lien_holder : StrVals ],
        trade_in : BOOLEAN,
        purchase_type : PurchaseTypes ],
    financial_info :
      [ employment : [ employer : StrVals ],
        financing_needed : BOOLEAN,
        references : RefLists ],
    sales_info : [ stage : StoredStages ] ]

INITIAL_CUSTOMER_PROFILE ==
  [ personal_info |->
      [ full_name |-> "", phone |-> "", email |-> "",
        address |-> [ full_address |-> "" ],
        drivers_license |-> [ number |-> "", expiration |-> "" ] ],
    vehicle_info |->
      [ interest_vehicle |-> [ make |-> "", model |-> "", vin |-> "" ],
        trade_vehicle |-> [ vin |-> "", lien_holder |-> "" ],
        trade_in |-> FALSE,
        purchase_type |-> "" ],
    financial_info |->
      [ employment |-> [ employer |-> "" ],
        financing_needed |-> FALSE,
        references |-> << >> ],
    sales_info |-> [ stage |-> "initial_contact" ] ]

(***************************************************************************)
(* The form catalog                                                        *)
(***************************************************************************)

ALL_FORMS ==
  << [ id |-> "interview_sheet",      name |-> "Interview Sheet",            stage |-> "initial_contact" ],
     [ id |-> "test_drive_agreement", name |-> "Test Drive Agreement",       stage |-> "initial_contact" ],
     [ id |-> "credit_application",   name |-> "Credit Application (F&I)",   stage |-> "financing" ],
     [ id |-> "reference_sheet",      name |-> "Reference Sheet",            stage |-> "financing" ],
     [ id |-> "delivery_report",      name |-> "Delivery Report",            stage |-> "always" ],
     [ id |-> "privacy_policy",       name |-> "Privacy Policy",             stage |-> "always" ],
     [ id |-> "deal_check_list",      name |-> "Deal Check List",            stage |-> "always" ],
     [ id |-> "oil_changes_form",     name |-> "Oil Changes Form",           stage |-> "conditional" ],
     [ id |-> "payoff_authorization", name |-> "Payoff Authorization Sheet", stage |-> "conditional" ] >>

\* Form['stage'] : FormStage | 'always' | 'conditional'
StageTags == {"initial_contact", "financing", "closing", "always", "conditional"}

\* FormStage
FormStage == {"initial_contact", "financing", "closing"}

(***************************************************************************)
(* determineStage                                                          *)
(***************************************************************************)

\* JavaScript truthiness of a string leaf.
Truthy(s) == s # ""

\* Variant: the financing test is made before the closing test.
determineStage_FinancingFirst(c) ==
  IF c.financial_info.financing_needed
       /\ Truthy(c.personal_info.full_name)
       /\ Truthy(c.personal_info.phone)
    THEN "financing"
    ELSE IF Truthy(c.vehicle_info.interest_vehicle.vin)
              /\ Truthy(c.personal_info.drivers_license.number)
           THEN "closing"
           ELSE "initial_contact"

\* Variant: a stored sales_info.stage of 'closing' is trusted.
determineStage_StoredStage(c) ==
  IF c.sales_info.stage = "closing"
       \/ (Truthy(c.vehicle_info.interest_vehicle.vin)
             /\ Truthy(c.personal_info.drivers_license.number))
    THEN "closing"
    ELSE IF c.financial_info.financing_needed
              /\ Truthy(c.personal_info.full_name)
              /\ Truthy(c.personal_info.phone)
           THEN "financing"
           ELSE "initial_contact"

determineStage(c) ==
  IF Truthy(c.vehicle_info.interest_vehicle.vin)
       /\ Truthy(c.personal_info.drivers_license.number)
    THEN "closing"
    ELSE IF c.financial_info.financing_needed
              /\ Truthy(c.personal_info.full_name)
              /\ Truthy(c.personal_info.phone)
           THEN "financing"
           ELSE "initial_contact"

(***************************************************************************)
(* getRequiredForms                                                        *)
(***************************************************************************)

\* The stage identifiers as the character runs String.replace scans: the
\* text between underscores and the underscores themselves.
StageChars(stage) ==
  CASE stage = "initial_contact" -> <<"initial", "_", "contact">>
    [] stage = "financing"       -> <<"financing">>
    [] stage = "closing"         -> <<"closing">>

RECURSIVE Join(_)
Join(toks) == IF toks = << >> THEN "" ELSE Head(toks) \o Join(Tail(toks))

\* String.prototype.replace with a string pattern: only the first
\* occurrence is replaced.
RECURSIVE replace(_, _, _)
replace(toks, pat, rep) ==
  IF toks = << >> THEN << >>
  ELSE IF Head(toks) = pat THEN <<rep>> \o Tail(toks)
  ELSE <<Head(toks)>> \o replace(Tail(toks), pat, rep)

\* Variant: the stage identifier is used as it is.
StageReason_NoReplace(stage) == "Stage: " \o Join(StageChars(stage))

\* `Stage: ${stage.replace('_', ' ')}`
StageReason(stage) == "Stage: " \o Join(replace(StageChars(stage), "_", " "))

\* Map<string, {form, reason}> as the sequence of its entries in insertion
\* order.  Map.prototype.set: a new key is appended, an existing key keeps
\* its position and gets the new value.
MapHas(m, k) == \E i \in 1..Len(m) : m[i].key = k

\* Variant: an existing key is deleted and set again, which moves it to the
\* end of the insertion order.
MapSet_Reinsert(m, k, v) ==
  Append(SelectSeq(m, LAMBDA e : e.key # k), [ key |-> k, value |-> v ])

MapSet(m, k, v) ==
  IF MapHas(m, k)
    THEN [ i \in 1..Len(m) |-> IF m[i].key = k THEN [ key |-> k, value |-> v ] ELSE m[i] ]
    ELSE Append(m, [ key |-> k, value |-> v ])

\* Array.from(map.values())
MapValues(m) == [ i \in 1..Len(m) |-> m[i].value ]

\* fs.forEach(f => requiredForms.set(f.id, { form: f, reason }))
RECURSIVE SetEach(_, _, _)
SetEach(m, fs, reason) ==
  IF fs = << >> THEN m
  ELSE SetEach(MapSet(m, Head(fs).id, [ form |-> Head(fs), reason |-> reason ]),
               Tail(fs), reason)

\* Array.prototype.find by id: the first match as a one-element sequence,
\* << >> when there is none (undefined).
Find(cat, id) ==
  LET hits == SelectSeq(cat, LAMBDA f : f.id = id)
  IN  IF hits = << >> THEN << >> ELSE <<Head(hits)>>

StageForms(cat, stage) == SelectSeq(cat, LAMBDA f : f.stage = stage)

\* Variant: any stated purchase type triggers the rule.
OilChangeRule_AnyType(cat, c, m) ==
  IF c.vehicle_info.purchase_type # ""
    THEN SetEach(m, Find(cat, "oil_changes_form"), "New Vehicle")
    ELSE m

OilChangeRule(cat, c, m) ==
  IF c.vehicle_info.purchase_type = "new"
    THEN SetEach(m, Find(cat, "oil_changes_form"), "New Vehicle")
    ELSE m

\* Variant: the rule is skipped once the deal is closing.
TradeInRule_NotClosing(cat, c, m) ==
  IF c.vehicle_info.trade_in /\ determineStage(c) # "closing"
    THEN SetEach(m, Find(cat, "payoff_authorization"), "Has Trade-In")
    ELSE m

TradeInRule(cat, c, m) ==
  IF c.vehicle_info.trade_in
    THEN SetEach(m, Find(cat, "payoff_authorization"), "Has Trade-In")
    ELSE m

\* Variant: the 'always' forms are added in every stage.
AlwaysRule_EveryStage(cat, stage, m) ==
  SetEach(m, StageForms(cat, "always"), "Required for Sale")

\* Variant: the 'always' forms are added from the financing stage on.
AlwaysRule_FromFinancing(cat, stage, m) ==
  IF stage # "initial_contact"
    THEN SetEach(m, StageForms(cat, "always"), "Required for Sale")
    ELSE m

AlwaysRule(cat, stage, m) ==
  IF stage = "closing"
    THEN SetEach(m, StageForms(cat, "always"), "Required for Sale")
    ELSE m

\* Variant: the trade-in rule runs before the new-vehicle rule.
RequiredFormsOver_TradeFirst(cat, c) ==
  LET stage == determineStage(c)
      m1 == SetEach(<< >>, StageForms(cat, stage), StageReason(stage))
      m2 == TradeInRule(cat, c, m1)
      m3 == OilChangeRule(cat, c, m2)
      m4 == AlwaysRule(cat, stage, m3)
  IN  MapValues(m4)

\* getRequiredForms over a catalog; the program's catalog is ALL_FORMS.
RequiredFormsOver(cat, c) ==
  LET stage == determineStage(c)
      m1 == SetEach(<< >>, StageForms(cat, stage), StageReason(stage))
      m2 == OilChangeRule(cat, c, m1)
      m3 == TradeInRule(cat, c, m2)
      m4 == AlwaysRule(cat, stage, m3)
  IN  MapValues(m4)

getRequiredForms(c) == RequiredFormsOver(ALL_FORMS, c)

(***************************************************************************)
(* getFormReadiness                                                        *)
(***************************************************************************)

\* if (missing) warnings.push(msg)
Push(warnings, missing, msg) == IF missing THEN Append(warnings, msg) ELSE warnings

\* Variant: the vehicle-of-interest check of test_drive_agreement fires only
\* when make and model are both missing; every other rule is unchanged.
FormCheckList_MakeAndModel(formId, c) ==
  LET p == c.personal_info
      v == c.vehicle_info
      f == c.financial_info
      name == << ~Truthy(p.full_name), "Missing customer name." >>
  IN CASE formId = "interview_sheet" ->
            << name,
               << ~Truthy(p.phone), "Missing phone number." >>,
               << ~Truthy(p.email), "Missing email address." >> >>
       [] formId = "test_drive_agreement" ->
            << name,
               << ~Truthy(p.drivers_license.number), "Missing driver's license number." >>,
               << ~Truthy(p.drivers_license.expiration), "Missing license expiration date." >>,
               << ~Truthy(v.interest_vehicle.make) /\ ~Truthy(v.interest_vehicle.model),
                  "Missing vehicle of interest." >> >>
       [] formId = "credit_application" ->
            << name,
               << ~Truthy(p.address.full_address), "Missing customer address." >>,
               << ~Truthy(f.employment.employer), "Missing employment information." >> >>
       [] formId = "reference_sheet" ->
            << name,
               << Len(f.references) < 1, "At least one reference is required." >> >>
       [] formId = "delivery_report" ->
            << name,
               << ~Truthy(v.interest_vehicle.vin), "Missing VIN for vehicle of interest." >> >>
       [] formId \in {"privacy_policy", "deal_check_list"} ->
            << name >>
       [] formId = "oil_changes_form" ->
            << name,
               << ~Truthy(v.interest_vehicle.model), "Missing vehicle model." >> >>
       [] formId = "payoff_authorization" ->
            << name,
               << ~Truthy(v.trade_vehicle.vin), "Missing trade-in vehicle VIN." >>,
               << ~Truthy(v.trade_vehicle.lien_holder), "Missing trade-in lien holder." >> >>
       [] OTHER -> << >>

FormCheckList(formId, c) ==
  LET p == c.personal_info
      v == c.vehicle_info
      f == c.financial_info
      name == << ~Truthy(p.full_name), "Missing customer name." >>
  IN CASE formId = "interview_sheet" ->
            << name,
               << ~Truthy(p.phone), "Missing phone number." >>,
               << ~Truthy(p.email), "Missing email address." >> >>
       [] formId = "test_drive_agreement" ->
            << name,
               << ~Truthy(p.drivers_license.number), "Missing driver's license number." >>,
               << ~Truthy(p.drivers_license.expiration), "Missing license expiration date." >>,
               << ~Truthy(v.interest_vehicle.make) \/ ~Truthy(v.interest_vehicle.model),
                  "Missing vehicle of interest." >> >>
       [] formId = "credit_application" ->
            << name,
               << ~Truthy(p.address.full_address), "Missing customer address." >>,
               << ~Truthy(f.employment.employer), "Missing employment information." >> >>
       [] formId = "reference_sheet" ->
            << name,
               << Len(f.references) < 1, "At least one reference is required." >> >>
       [] formId = "delivery_report" ->
            << name,
               << ~Truthy(v.interest_vehicle.vin), "Missing VIN for vehicle of interest." >> >>
       [] formId \in {"privacy_policy", "deal_check_list"} ->
            << name >>
       [] formId = "oil_changes_form" ->
            << name,
               << ~Truthy(v.interest_vehicle.model), "Missing vehicle model." >> >>
       [] formId = "payoff_authorization" ->
            << name,
               << ~Truthy(v.trade_vehicle.vin), "Missing trade-in vehicle VIN." >>,
               << ~Truthy(v.trade_vehicle.lien_holder), "Missing trade-in lien holder." >> >>
       [] OTHER -> << >>

\* Variant: the checks stop at the first one that fails.
RECURSIVE RunChecks_FirstOnly(_, _)
RunChecks_FirstOnly(warnings, checks) ==
  IF checks = << >> \/ warnings # << >> THEN warnings
  ELSE RunChecks_FirstOnly(Push(warnings, Head(checks)[1], Head(checks)[2]), Tail(checks))

RECURSIVE RunChecks(_, _)
RunChecks(warnings, checks) ==
  IF checks = << >> THEN warnings
  ELSE RunChecks(Push(warnings, Head(checks)[1], Head(checks)[2]), Tail(checks))

getFormReadiness(formId, c) ==
  LET warnings == RunChecks(<< >>, FormCheckList(formId, c))
  IN  [ isReady |-> Len(warnings) = 0, warnings |-> warnings ]

(***************************************************************************)
(* JavaScript values                                                       *)
(*                                                                         *)
(* generatePreviewData and getValueByPath work on values of any type, so   *)
(* a value carries its type tag: undefined, null, string, number, boolean, *)
(* array (a sequence) or object (a function from keys to values).          *)
(***************************************************************************)

Undefined == [ t |-> "undefined" ]
Null == [ t |-> "null" ]
Str(s) == [ t |-> "string", v |-> s ]
Num(n) == [ t |-> "number", v |-> n ]
Bool(b) == [ t |-> "boolean", v |-> b ]
Arr(a) == [ t |-> "array", v |-> a ]
Obj(o) == [ t |-> "object", v |-> o ]

\* The values `acc && ...` stops at.
Falsy(x) ==
  \/ x.t \in {"undefined", "null"}
  \/ x.t = "string" /\ x.v = ""
  \/ x.t = "number" /\ x.v = 0
  \/ x.t = "boolean" /\ ~x.v

\* acc[part] on a truthy acc: an own property of an object, the length or
\* an element of an array, the length or a character of a string; undefined
\* otherwise.
Get(x, key) ==
  CASE x.t = "object" -> IF key \in DOMAIN x.v THEN x.v[key] ELSE Undefined
    [] x.t = "array"  -> IF key = "length" THEN Num(Len(x.v))
                         ELSE IF \E i \in 1..Len(x.v) : ToString(i - 1) = key
                           THEN x.v[CHOOSE i \in 1..Len(x.v) : ToString(i - 1) = key]
                         ELSE Undefined
    [] x.t = "string" -> IF key = "length" THEN Num(Len(x.v))
                         ELSE IF \E i \in 1..Len(x.v) : ToString(i - 1) = key
                           THEN Str(LET i == CHOOSE n \in 1..Len(x.v) : ToString(n - 1) = key
                                    IN  SubSeq(x.v, i, i))
                         ELSE Undefined
    [] OTHER          -> Undefined

\* String(value)
RECURSIVE JsToString(_)
JsToString(x) ==
  LET RECURSIVE JoinComma(_)
      JoinComma(a) ==
        IF a = << >> THEN ""
        ELSE (IF Head(a).t \in {"undefined", "null"} THEN "" ELSE JsToString(Head(a)))
             \o (IF Len(a) > 1 THEN "," ELSE "") \o JoinComma(Tail(a))
  IN CASE x.t = "string"    -> x.v
       [] x.t = "number"    -> ToString(x.v)
       [] x.t = "boolean"   -> IF x.v THEN "true" ELSE "false"
       [] x.t = "undefined" -> "undefined"
       [] x.t = "null"      -> "null"
       [] x.t = "array"     -> JoinComma(x.v)
       [] x.t = "object"    -> "[object Object]"

(***************************************************************************)
(* getValueByPath                                                          *)
(***************************************************************************)

\* path.split('.'): the pieces between the dots, '' for an empty piece.
RECURSIVE split(_)
split(path) ==
  IF \E i \in 1..Len(path) : SubSeq(path, i, i) = "."
    THEN LET dots == { i \in 1..Len(path) : SubSeq(path, i, i) = "." }
             first == CHOOSE i \in dots : \A k \in dots : i <= k
         IN  << SubSeq(path, 1, first - 1) >> \o split(SubSeq(path, first + 1, Len(path)))
    ELSE << path >>

\* parts.reduce((acc, part) => acc && acc[part], obj)
RECURSIVE reduce(_, _)
reduce(parts, acc) ==
  IF parts = << >> THEN acc
  ELSE reduce(Tail(parts), IF Falsy(acc) THEN acc ELSE Get(acc, Head(parts)))

getValueByPath(obj, path) == reduce(split(path), obj)

(***************************************************************************)
(* Object.keys, generateFlatKeys and deepMerge                             *)
(***************************************************************************)

\* The property names of the profile and of its parts, in an order that
\* agrees with the order in which every object of the source lists them.
KeyOrder ==
  << "id", "created_at", "personal_info", "vehicle_info", "financial_info", "sales_info",
     "full_name", "first_name", "last_name", "name", "phone", "email", "relationship",
     "address", "drivers_license", "full_address", "street", "city",
     "number", "expiration", "state", "zip", "is_expired",
     "interest_vehicle", "trade_vehicle", "trade_in", "purchase_type",
     "year", "make", "model", "stock_number", "vin", "lien_holder", "payoff_amount",
     "employment", "financing_needed", "references", "employer", "position", "income",
     "stage", "salesperson" >>

\* The index keys '0', '1', ... of an array or a string of length n.
IndexKeys(n) == [ i \in 1..n |-> ToString(i - 1) ]

\* Object.keys(x)
ObjectKeys(x) ==
  CASE x.t = "object" -> SelectSeq(KeyOrder, LAMBDA k : k \in DOMAIN x.v)
    [] x.t = "array"  -> IndexKeys(Len(x.v))
    [] x.t = "string" -> IndexKeys(Len(x.v))
    [] OTHER          -> << >>

\* Variant: arrays are descended into like objects.
RECURSIVE FlatKeysReduce_IntoArrays(_, _, _, _)
FlatKeysReduce_IntoArrays(acc, keys, obj, path) ==
  IF keys = << >> THEN acc
  ELSE LET key == Head(keys)
           newPath == IF path # "" THEN path \o "." \o key ELSE key
           value == Get(obj, key)
           RECURSIVE Keys(_, _)
           Keys(o, p) == FlatKeysReduce_IntoArrays(<< >>, ObjectKeys(o), o, p)
       IN  FlatKeysReduce_IntoArrays(
             IF value.t \in { "object", "array" }
               THEN acc \o Keys(value, newPath)
               ELSE Append(acc, newPath),
             Tail(keys), obj, path)

\* generateFlatKeys(obj, path) is Object.keys(obj).reduce(...) from []:
\* FlatKeysReduce is that reduce with the accumulator acc and the keys still
\* to come.
RECURSIVE generateFlatKeys(_, _)
RECURSIVE FlatKeysReduce(_, _, _, _)
FlatKeysReduce(acc, keys, obj, path) ==
  IF keys = << >> THEN acc
  ELSE LET key == Head(keys)
           newPath == IF path # "" THEN path \o "." \o key ELSE key
           value == Get(obj, key)
       IN  FlatKeysReduce(
             IF value.t = "object"
               THEN acc \o generateFlatKeys(value, newPath)
               ELSE Append(acc, newPath),
             Tail(keys), obj, path)

generateFlatKeys(obj, path) == FlatKeysReduce(<< >>, ObjectKeys(obj), obj, path)

\* { ...x }: the own enumerable properties of x.
Spread(x) ==
  CASE x.t = "object" -> x.v
    [] x.t = "array"  -> [ k \in { ToString(i - 1) : i \in 1..Len(x.v) } |->
                             x.v[CHOOSE i \in 1..Len(x.v) : ToString(i - 1) = k] ]
    [] x.t = "string" -> [ k \in { ToString(i - 1) : i \in 1..Len(x.v) } |->
                             Str(LET i == CHOOSE n \in 1..Len(x.v) : ToString(n - 1) = k
                                 IN  SubSeq(x.v, i, i)) ]
    [] OTHER          -> << >>

\* output[key] = value
SetKey(output, key, value) ==
  [ k \in DOMAIN output \cup { key } |-> IF k = key THEN value ELSE output[k] ]

\* sourceValue !== undefined && sourceValue !== null && sourceValue !== ''
Overwrites(sourceValue) ==
  /\ sourceValue.t \notin { "undefined", "null" }
  /\ ~(sourceValue.t = "string" /\ sourceValue.v = "")

\* deepMerge, and the forEach over Object.keys(source) it runs when target
\* and source are both truthy.
RECURSIVE deepMerge(_, _)
RECURSIVE MergeKeys(_, _, _, _)
MergeKeys(output, keys, target, source) ==
  IF keys = << >> THEN output
  ELSE LET key == Head(keys)
           targetValue == Get(target, key)
           sourceValue == Get(source, key)
       IN  MergeKeys(
             IF sourceValue.t = "object"
               THEN SetKey(output, key, deepMerge(targetValue, sourceValue))
             ELSE IF Overwrites(sourceValue)
               THEN SetKey(output, key, sourceValue)
             ELSE output,
             Tail(keys), target, source)

deepMerge(target, source) ==
  IF ~Falsy(target) /\ ~Falsy(source)
    THEN Obj(MergeKeys(Spread(target), ObjectKeys(source), target, source))
    ELSE Obj(Spread(target))

(***************************************************************************)
(* Customer profiles as JavaScript values                                  *)
(***************************************************************************)

SALESPERSON_NAME == "Stephen Schreck"

\* INITIAL_CUSTOMER_PROFILE with every field of the source.
DefaultProfile ==
  Obj([ personal_info |-> Obj(
          [ full_name |-> Str(""), first_name |-> Str(""), last_name |-> Str(""),
            phone |-> Str(""), email |-> Str(""),
            address |-> Obj([ full_address |-> Str(""), street |-> Str(""),
                              city |-> Str(""), state |-> Str(""), zip |-> Str("") ]),
            drivers_license |-> Obj([ number |-> Str(""), expiration |-> Str(""),
                                      state |-> Str("OH") ]) ]),
        vehicle_info |-> Obj(
          [ interest_vehicle |-> Obj([ year |-> Str(""), make |-> Str(""), model |-> Str(""),
                                       stock_number |-> Str(""), vin |-> Str("") ]),
            trade_vehicle |-> Obj([ year |-> Str(""), make |-> Str(""), model |-> Str(""),
                                    vin |-> Str(""), lien_holder |-> Str(""),
                                    payoff_amount |-> Num(0) ]),
            trade_in |-> Bool(FALSE),
            purchase_type |-> Str("") ]),
        financial_info |-> Obj(
          [ employment |-> Obj([ employer |-> Str(""), position |-> Str(""),
                                 income |-> Num(0) ]),
            financing_needed |-> Bool(FALSE),
            references |-> Arr(<< >>) ]),
        sales_info |-> Obj([ stage |-> Str("initial_contact"),
                             salesperson |-> Str(SALESPERSON_NAME) ]) ])

\* A profile after some messages and a license scan: a name, a trade-in with
\* a vehicle make, an income, one reference, a null e-mail as a database
\* row may hold it, and the optional is_expired flag.
PopulatedProfile ==
  Obj([ personal_info |-> Obj(
          [ full_name |-> Str("x"), first_name |-> Str("x"), last_name |-> Str(""),
            phone |-> Str(""), email |-> Null,
            address |-> Obj([ full_address |-> Str(""), street |-> Str(""),
                              city |-> Str(""), state |-> Str(""), zip |-> Str("") ]),
            drivers_license |-> Obj([ number |-> Str("x"), expiration |-> Str("x"),
                                      state |-> Str("OH"), is_expired |-> Bool(FALSE) ]) ]),
        vehicle_info |-> Obj(
          [ interest_vehicle |-> Obj([ year |-> Str("2020"), make |-> Str(""), model |-> Str("x"),
                                       stock_number |-> Str(""), vin |-> Str("") ]),
            trade_vehicle |-> Obj([ year |-> Str(""), make |-> Str("x"), model |-> Str(""),
                                    vin |-> Str(""), lien_holder |-> Str(""),
                                    payoff_amount |-> Num(0) ]),
            trade_in |-> Bool(TRUE),
            purchase_type |-> Str("new") ]),
        financial_info |-> Obj(
          [ employment |-> Obj([ employer |-> Str("x"), position |-> Str(""),
                                 income |-> Num(5) ]),
            financing_needed |-> Bool(FALSE),
            references |-> Arr(<< Obj([ name |-> Str("x"), phone |-> Str("x"),
                                        relationship |-> Str("x") ]) >>) ]),
        sales_info |-> Obj([ stage |-> Str("initial_contact"),
                             salesperson |-> Str(SALESPERSON_NAME) ]) ])

(***************************************************************************)
(* templateService: the pdf_templates rows and their reads                 *)
(***************************************************************************)

\* An empty object / an empty array.
EmptyObject == << >>

\* getMappingsForForm: the row's mappings; {} when the query reports an
\* error (which it also does when there is no row for the id).
getMappingsForForm(table, formId, error) ==
  IF error \/ formId \notin DOMAIN table THEN EmptyObject
  ELSE table[formId].mappings

\* getDiscoveredFields: the row's discovered_fields; [] on an error.
getDiscoveredFields(table, formId, error) ==
  IF error \/ formId \notin DOMAIN table THEN << >>
  ELSE table[formId].discovered_fields

(***************************************************************************)
(* generatePreviewData                                                     *)
(***************************************************************************)

\* String.prototype.trim on a text given as the pieces of its template
\* literal; the pieces are field values (without surrounding blanks) and
\* the single blanks between them.
RECURSIVE trimStart(_)
trimStart(toks) ==
  IF toks = << >> THEN << >>
  ELSE IF Head(toks) \in {"", " "} THEN trimStart(Tail(toks))
  ELSE toks

RECURSIVE trimEnd(_)
trimEnd(toks) ==
  IF toks = << >> THEN << >>
  ELSE IF toks[Len(toks)] \in {"", " "} THEN trimEnd(SubSeq(toks, 1, Len(toks) - 1))
  ELSE toks

trim(toks) == Join(trimEnd(trimStart(toks)))

\* `${v.year} ${v.make} ${v.model}`.trim()
YearMakeModel(vehicle) ==
  trim(<< JsToString(Get(vehicle, "year")), " ",
          JsToString(Get(vehicle, "make")), " ",
          JsToString(Get(vehicle, "model")) >>)

\* new Date().toLocaleDateString('en-US')
toLocaleDateString(now) ==
  ToString(now.month) \o "/" \o ToString(now.day) \o "/" \o ToString(now.year)

MAPPABLE_SPECIAL_KEYS ==
  { "__CURRENT_DATE__", "__SALESPERSON__", "__INTEREST_VEHICLE_YMM__", "__TRADE_VEHICLE_YMM__" }

\* Variant: the salesperson handler stamps the name with the date.
SPECIAL_HANDLERS_Stamped(key, c, now) ==
  CASE key = "__CURRENT_DATE__" -> Str(toLocaleDateString(now))
    [] key = "__SALESPERSON__"  -> Str(SALESPERSON_NAME \o " " \o toLocaleDateString(now))
    [] key = "__INTEREST_VEHICLE_YMM__" ->
         Str(YearMakeModel(Get(Get(c, "vehicle_info"), "interest_vehicle")))
    [] key = "__TRADE_VEHICLE_YMM__" ->
         Str(YearMakeModel(Get(Get(c, "vehicle_info"), "trade_vehicle")))

SPECIAL_HANDLERS(key, c, now) ==
  CASE key = "__CURRENT_DATE__" -> Str(toLocaleDateString(now))
    [] key = "__SALESPERSON__"  -> Str(SALESPERSON_NAME)
    [] key = "__INTEREST_VEHICLE_YMM__" ->
         Str(YearMakeModel(Get(Get(c, "vehicle_info"), "interest_vehicle")))
    [] key = "__TRADE_VEHICLE_YMM__" ->
         Str(YearMakeModel(Get(Get(c, "vehicle_info"), "trade_vehicle")))

FINANCIAL_FIELDS_TO_SKIP == << "SalePrice", "DownPayment", "PayoffAmount", "AnnualIncome", "SSN" >>

includes(list, x) == \E i \in 1..Len(list) : list[i] = x

\* mappings[pdfField]: the mapped path, "" when the field has no entry (an
\* absent entry and an empty one are both falsy).
MappedPath(mappings, pdfField) ==
  IF pdfField \in DOMAIN mappings THEN mappings[pdfField] ELSE ""

\* The value a mapped field resolves to ('' when not mapped).
ResolveValue(mappedPath, c, now) ==
  IF mappedPath # ""
    THEN IF mappedPath \in MAPPABLE_SPECIAL_KEYS
           THEN SPECIAL_HANDLERS(mappedPath, c, now)
           ELSE getValueByPath(c, mappedPath)
    ELSE Str("")

\* Variant: the test for a numeric 0 is missing.
FormatValue_ZeroShown(value) ==
  LET shown ==
        IF value.t \in {"undefined", "null"} \/ (value.t = "string" /\ value.v = "")
          THEN Str("---")
        ELSE IF value.t = "boolean"
          THEN Str(IF value.v THEN "Yes" ELSE "No")
        ELSE value
  IN  JsToString(shown)

\* "Format the value for display", then String(value).
FormatValue(value) ==
  LET shown ==
        IF value.t \in {"undefined", "null"} \/ (value.t = "string" /\ value.v = "")
          THEN Str("---")
        ELSE IF value.t = "boolean"
          THEN Str(IF value.v THEN "Yes" ELSE "No")
        ELSE IF value.t = "number" /\ value.v = 0
          THEN Str("---")
        ELSE value
  IN  JsToString(shown)

\* Variant: the provenance of an unmapped field is the (empty) mapped path.
FilledField_EmptyProvenance(pdfField, mappings, c, now) ==
  IF includes(FINANCIAL_FIELDS_TO_SKIP, pdfField)
    THEN [ pdfField |-> pdfField, value |-> "[Manual Entry]", sourcePath |-> "N/A" ]
    ELSE LET mappedPath == MappedPath(mappings, pdfField)
         IN  [ pdfField |-> pdfField,
               value |-> FormatValue(ResolveValue(mappedPath, c, now)),
               sourcePath |-> mappedPath ]

\* One iteration of the loop over the discovered fields.
FilledField(pdfField, mappings, c, now) ==
  IF includes(FINANCIAL_FIELDS_TO_SKIP, pdfField)
    THEN [ pdfField |-> pdfField, value |-> "[Manual Entry]", sourcePath |-> "N/A" ]
    ELSE LET mappedPath == MappedPath(mappings, pdfField)
         IN  [ pdfField |-> pdfField,
               value |-> FormatValue(ResolveValue(mappedPath, c, now)),
               sourcePath |-> IF mappedPath # "" THEN mappedPath ELSE "Not Mapped" ]

RECURSIVE FillFields(_, _, _, _, _)
FillFields(filledData, discoveredFields, mappings, c, now) ==
  IF discoveredFields = << >> THEN filledData
  ELSE FillFields(Append(filledData, FilledField(Head(discoveredFields), mappings, c, now)),
                  Tail(discoveredFields), mappings, c, now)

\* generatePreviewData(formId, customer) on the template rows `table`, with
\* the outcome of its two reads and the date its handlers read.
generatePreviewData(formId, c, table, mappingsError, fieldsError, now) ==
  FillFields(<< >>,
             getDiscoveredFields(table, formId, fieldsError),
             getMappingsForForm(table, formId, mappingsError),
             c, now)

(***************************************************************************)
(* Strings, character by character                                         *)
(***************************************************************************)

UpperCaseLetters == "ABCDEFGHIJKLMNOPQRSTUVWXYZ"
LowerCaseLetters == "abcdefghijklmnopqrstuvwxyz"

LowerChar(ch) ==
  IF \E i \in 1..Len(UpperCaseLetters) : SubSeq(UpperCaseLetters, i, i) = ch
    THEN LET i == CHOOSE n \in 1..Len(UpperCaseLetters) : SubSeq(UpperCaseLetters, n, n) = ch
         IN  SubSeq(LowerCaseLetters, i, i)
    ELSE ch

\* String.prototype.toLowerCase
toLowerCase(s) == Join([ i \in 1..Len(s) |-> LowerChar(SubSeq(s, i, i)) ])

\* The characters /\s/ matches.
WhiteSpace == { " ", "\t", "\n" }

\* s.replace(/\s/g, '_'): every white-space character is replaced.
replaceAll(s, pat, rep) ==
  Join([ i \in 1..Len(s) |-> IF SubSeq(s, i, i) \in pat THEN rep ELSE SubSeq(s, i, i) ])

(***************************************************************************)
(* generatePdfBytes                                                        *)
(*                                                                         *)
(* A call is a record: where it stands (pc), its form, the preview data it *)
(* got, the number k of preview entries its loop has gone through, the log *)
(* of what it did to the template document, the error it threw and the     *)
(* bytes it returned; fetch keeps how its template query and download      *)
(* went.                                                                   *)
(***************************************************************************)

\* getTemplateFile: null when the row query fails or the row has no
\* storage_path, null when the download fails, else the file as a data URL.
getTemplateFile(table, formId, dbError, storageError) ==
  IF dbError \/ formId \notin DOMAIN table \/ table[formId].storage_path = "" THEN Null
  ELSE IF storageError THEN Null
  ELSE Str("data:application/pdf;base64," \o table[formId].storage_path)

\* The call as generatePdfBytes(form, customer) starts it.
NewCall(form) ==
  [ pc |-> "getTemplateFile", form |-> form,
    fetch |-> [ dbError |-> FALSE, storageError |-> FALSE ],
    previewData |-> << >>, k |-> 0, log |-> << >>, error |-> "", bytes |-> << >> ]

\* Variant: the message does not say which form.
TemplateNotFound_Anonymous(form) == "Template file not found"

\* `Template file not found for form: ${form.name}`
TemplateNotFound(form) == "Template file not found for form: " \o form.name

\* const templateBase64 = await getTemplateFile(form.id); if (!templateBase64) throw ...
AfterGetTemplateFile(gcall, table, dbError, storageError) ==
  LET templateBase64 == getTemplateFile(table, gcall.form.id, dbError, storageError)
      fetch == [ dbError |-> dbError, storageError |-> storageError ]
  IN  IF Falsy(templateBase64)
        THEN [ gcall EXCEPT !.fetch = fetch, !.pc = "threw",
                            !.error = TemplateNotFound(gcall.form) ]
        ELSE [ gcall EXCEPT !.fetch = fetch, !.pc = "load" ]

\* What PDFDocument.load says of bytes that are no PDF document.
ParseError == "Failed to parse PDF document"

\* await PDFDocument.load(templateBase64); pdfDoc.getForm()
AfterLoad(gcall, corrupt) ==
  IF corrupt
    THEN [ gcall EXCEPT !.pc = "threw", !.error = ParseError ]
    ELSE [ gcall EXCEPT !.pc = "generatePreviewData" ]

\* const previewData = await generatePreviewData(form.id, customer)
AfterPreview(gcall, previewData) ==
  [ gcall EXCEPT !.pc = "fill", !.previewData = previewData ]

\* Variant: only unmapped and empty values are left out.
ShouldWrite_ManualEntryWritten(fieldData) == fieldData.value # "---"

\* fieldData.value !== '---' && fieldData.value !== '[Manual Entry]'
ShouldWrite(fieldData) ==
  fieldData.value # "---" /\ fieldData.value # "[Manual Entry]"

\* What pdfForm.getField(name) may find in the template: a text field whose
\* setText accepts the value or throws (fails), a check box that is checked
\* or not in the template, a radio group whose select accepts the value or
\* throws, a field of another class, or no field of that name (getField
\* throws).
TemplateFields ==
  { [ kind |-> "PDFTextField", checked |-> FALSE, fails |-> FALSE ],
    [ kind |-> "PDFTextField", checked |-> FALSE, fails |-> TRUE ],
    [ kind |-> "PDFCheckBox", checked |-> FALSE, fails |-> FALSE ],
    [ kind |-> "PDFCheckBox", checked |-> TRUE, fails |-> FALSE ],
    [ kind |-> "PDFRadioGroup", checked |-> FALSE, fails |-> FALSE ],
    [ kind |-> "PDFRadioGroup", checked |-> FALSE, fails |-> TRUE ],
    [ kind |-> "PDFDropdown", checked |-> FALSE, fails |-> FALSE ],
    [ kind |-> "absent", checked |-> FALSE, fails |-> TRUE ] }

\* Variant: the value is compared as it is.
Checked_CaseSensitive(value) == includes(<< "yes", "true", "on" >>, value)

\* ['yes', 'true', 'on'].includes(fieldData.value.toLowerCase())
Checked(value) == includes(<< "yes", "true", "on" >>, toLowerCase(value))

\* The body of the try block on the field found: what was called on it,
\* whether that threw, and the state the field is left in.
Attempt(fieldData, found) ==
  LET entry(op, threw, state) ==
        [ pdfField |-> fieldData.pdfField, value |-> fieldData.value, kind |-> found.kind,
          op |-> op, threw |-> threw, state |-> state ]
      was == IF found.checked THEN "checked" ELSE "unchecked"
  IN  CASE found.kind = "absent"        -> entry("getField", TRUE, "")
        [] found.kind = "PDFTextField"  ->
             entry("setText", found.fails, IF found.fails THEN "" ELSE fieldData.value)
        [] found.kind = "PDFCheckBox"   ->
             IF Checked(fieldData.value) THEN entry("check", FALSE, "checked")
             ELSE entry("uncheck", FALSE, "unchecked")
        [] found.kind = "PDFRadioGroup" ->
             entry("select", found.fails, IF found.fails THEN "" ELSE fieldData.value)
        [] OTHER                        -> entry("none", FALSE, was)

\* Variant: no try/catch around the write.
FillField_NoCatch(gcall, found) ==
  LET fieldData == gcall.previewData[gcall.k + 1]
      done == Attempt(fieldData, found)
  IN  IF ~ShouldWrite(fieldData) THEN [ gcall EXCEPT !.k = @ + 1 ]
      ELSE IF done.threw
        THEN [ gcall EXCEPT !.log = Append(@, done), !.pc = "threw", !.error = "Could not fill field" ]
      ELSE [ gcall EXCEPT !.log = Append(@, done), !.k = @ + 1 ]

\* One iteration of the loop over previewData: the write is attempted when
\* the value calls for it; a throw is caught and logged to the console.
FillField(gcall, found) ==
  LET fieldData == gcall.previewData[gcall.k + 1]
  IN  IF ShouldWrite(fieldData)
        THEN [ gcall EXCEPT !.log = Append(@, Attempt(fieldData, found)), !.k = @ + 1 ]
        ELSE [ gcall EXCEPT !.k = @ + 1 ]

\* pdfForm.flatten() in the log.
Flattened ==
  [ pdfField |-> "", value |-> "", kind |-> "", op |-> "flatten", threw |-> FALSE, state |-> "" ]

\* pdfForm.flatten()
AfterFlatten(gcall) == [ gcall EXCEPT !.log = Append(@, Flattened), !.pc = "save" ]

\* The saved document: the fields that were filled, with their content.
Filled(log) ==
  SelectSeq(log, LAMBDA e : ~e.threw /\ e.op \in { "setText", "check", "uncheck", "select" })

\* return await pdfDoc.save()
AfterSave(gcall) == [ gcall EXCEPT !.pc = "returned", !.bytes = Filled(gcall.log) ]

(***************************************************************************)
(* State outside a preview and outside a generation                        *)
(***************************************************************************)

\* The date the clock starts at.
FirstDay == [ year |-> 2026, month |-> 11, day |-> 1 ]

\* No preview modal open: nothing to preview, no call made.
NoPreview ==
  /\ modalCustomer = DefaultProfile
  /\ pdfTemplates = EmptyObject
  /\ clock = FirstDay
  /\ previewCalls = << >>

\* PDFPreviewModal's state on mount, and no generatePdfBytes call in flight.
ModalIdle ==
  [ generationStatus |-> "idle", generationMessage |-> "", pc |-> "idle", i |-> 0,
    zip |-> << >>, zipBlob |-> << >>, download |-> "", timer |-> FALSE, closed |-> FALSE ]

\* No generatePdfBytes call made.
GenIdle == << >>

NoGeneration ==
  /\ forms = << >>
  /\ modal = ModalIdle
  /\ gen = GenIdle

\* No utility called.
UtilIdle == [ op |-> "none", args |-> << >>, result |-> Undefined ]

NoUtilCall == util = UtilIdle

\* The chat application not started: an empty database, the state App
\* mounts with, no handler running.
DbEmpty == [ customers |-> << >>, messages |-> << >> ]

AppIdle ==
  [ customers |-> << >>, selectedCustomerId |-> "", messages |-> << >>,
    isAiThinking |-> FALSE, error |-> "" ]

NoApp ==
  /\ db = DbEmpty
  /\ app = AppIdle
  /\ tasks = << >>
  /\ faults = 0

(***************************************************************************)
(* The state machine: a profile, and calls of the three operations on it   *)
(***************************************************************************)

CatalogIds == { ALL_FORMS[i].id : i \in 1..Len(ALL_FORMS) }

\* Ids that are not in the catalog (the switch's default branch).
UnknownFormIds == {"unknown_form", ""}

FormIds == CatalogIds \cup UnknownFormIds

NoCall == [ op |-> "none", formId |-> "" ]

\* The profiles the calls are made on.  Two families, each varying every
\* field its operations read: for determineStage/getRequiredForms the five
\* classification fields, trade_in and purchase_type, together with email
\* and the stored sales_info.stage (fields those operations never read);
\* for getFormReadiness every string leaf and the reference list.
ClassifierProfiles ==
  { [ INITIAL_CUSTOMER_PROFILE EXCEPT
        !.personal_info.full_name = name,
        !.personal_info.phone = phone,
        !.personal_info.email = email,
        !.personal_info.drivers_license.number = dl,
        !.vehicle_info.interest_vehicle.vin = vin,
        !.vehicle_info.trade_in = ti,
        !.vehicle_info.purchase_type = pt,
        !.financial_info.financing_needed = fin,
        !.sales_info.stage = st ] :
      name \in StrVals, phone \in StrVals, email \in StrVals, dl \in StrVals,
      vin \in StrVals, ti \in BOOLEAN, pt \in PurchaseTypes, fin \in BOOLEAN,
      st \in StoredStages }

ReadinessProfiles ==
  { [ INITIAL_CUSTOMER_PROFILE EXCEPT
        !.personal_info = pi,
        !.vehicle_info.interest_vehicle = iv,
        !.vehicle_info.trade_vehicle = tv,
        !.financial_info.employment = emp,
        !.financial_info.references = refs ] :
      pi \in [ full_name : StrVals, phone : StrVals, email : StrVals,
               address : [ full_address : StrVals ],
               drivers_license : [ number : StrVals, expiration : StrVals ] ],
      iv \in [ make : StrVals, model : StrVals, vin : StrVals ],
      tv \in [ vin : StrVals, lien_holder : StrVals ],
      emp \in [ employer : StrVals ],
      refs \in RefLists }

Init ==
  /\ customer \in ClassifierProfiles \cup ReadinessProfiles
  /\ catalog = ALL_FORMS
  /\ call = NoCall
  /\ ret = << >>
  /\ NoPreview
  /\ NoGeneration
  /\ NoUtilCall
  /\ NoApp

CallDetermineStage ==
  /\ call' = [ op |-> "determineStage", formId |-> "" ]
  /\ ret' = determineStage(customer)
  /\ UNCHANGED <<customer, catalog, previewVars, genVars, utilVars, appVars>>

CallGetRequiredForms ==
  /\ call' = [ op |-> "getRequiredForms", formId |-> "" ]
  /\ ret' = RequiredFormsOver(catalog, customer)
  /\ UNCHANGED <<customer, catalog, previewVars, genVars, utilVars, appVars>>

CallGetFormReadiness ==
  \E formId \in FormIds :
    /\ call' = [ op |-> "getFormReadiness", formId |-> formId ]
    /\ ret' = getFormReadiness(formId, customer)
    /\ UNCHANGED <<customer, catalog, previewVars, genVars, utilVars, appVars>>

Next ==
  \/ CallDetermineStage
  \/ CallGetRequiredForms
  \/ CallGetFormReadiness

Spec == Init /\ [][Next]_vars

(***************************************************************************)
(* getRequiredForms over other catalogs                                    *)
(*                                                                         *)
(* In ALL_FORMS no form is inserted by two rules: the two forms of the     *)
(* conditional rules are tagged 'conditional', which no stage equals.  The *)
(* behaviour of the Map on a repeated set() shows only for a catalog that  *)
(* tags those forms otherwise; SpecCat runs the same code over such        *)
(* catalogs.                                                               *)
(***************************************************************************)

Catalogs ==
  { [ ALL_FORMS EXCEPT ![8].stage = oilTag, ![9].stage = payoffTag ] :
      oilTag \in StageTags, payoffTag \in StageTags }

CatalogProfiles ==
  { [ INITIAL_CUSTOMER_PROFILE EXCEPT
        !.personal_info.full_name = name,
        !.personal_info.phone = phone,
        !.personal_info.drivers_license.number = dl,
        !.vehicle_info.interest_vehicle.vin = vin,
        !.vehicle_info.trade_in = ti,
        !.vehicle_info.purchase_type = pt,
        !.financial_info.financing_needed = fin ] :
      name \in StrVals, phone \in StrVals, dl \in StrVals, vin \in StrVals,
      ti \in BOOLEAN, pt \in PurchaseTypes, fin \in BOOLEAN }

InitCat ==
  /\ customer \in CatalogProfiles
  /\ catalog \in Catalogs
  /\ call = NoCall
  /\ ret = << >>
  /\ NoPreview
  /\ NoGeneration
  /\ NoUtilCall
  /\ NoApp

NextCat ==
  \/ CallDetermineStage
  \/ CallGetRequiredForms

SpecCat == InitCat /\ [][NextCat]_vars

(***************************************************************************)
(* Preview calls: generatePreviewData on one form's template row           *)
(***************************************************************************)

\* Largest number of discovered fields of a template that is enumerated.
MaxFields == 2

\* Last day the clock reaches.
MaxDay == 2

\* No call is running on the stage/forms/readiness side.
NoFormCalls ==
  /\ customer = INITIAL_CUSTOMER_PROFILE
  /\ catalog = ALL_FORMS
  /\ call = NoCall
  /\ ret = << >>

\* Template field names: an ordinary text field, a date field, and a field
\* of the manual-entry list.
PreviewFieldNames == { "CustomerName", "Date", "SSN" }

\* A field name some mapping entry may be saved for although the template
\* has no such field.
StrayFieldName == "Removed"

\* What the ordinary field may be mapped to: paths to leaves of every type,
\* to a section, to leaves that do not exist, through a string leaf, each
\* special key, the empty entry, or no entry (<< >>).
FieldTargets ==
  { <<p>> : p \in { "personal_info.full_name", "personal_info.phone", "personal_info.email",
                    "personal_info.nickname", "personal_info.full_name.length",
                    "personal_info.phone.area", "personal_info.drivers_license.is_expired",
                    "personal_info", "vehicle_info.trade_in",
                    "vehicle_info.trade_vehicle.payoff_amount",
                    "financial_info.employment.income", "financial_info.references",
                    "" } \cup MAPPABLE_SPECIAL_KEYS }
  \cup { << >> }

\* The saved mappings: an entry for the names whose choice is not << >>.
MappingOf(choice) ==
  [ n \in { m \in DOMAIN choice : choice[m] # << >> } |-> choice[n][1] ]

PreviewMappings ==
  { MappingOf([ CustomerName |-> t, Date |-> d, SSN |-> s, Removed |-> r ]) :
      t \in FieldTargets,
      d \in { <<"__CURRENT_DATE__">> },
      s \in { << >>, <<"personal_info.full_name">> },
      r \in { << >>, <<"personal_info.full_name">> } }

\* Sequences of at most n names.
RECURSIVE SeqsUpTo(_, _)
SeqsUpTo(names, n) ==
  IF n = 0 THEN { << >> }
  ELSE LET shorter == SeqsUpTo(names, n - 1)
       IN  shorter \cup { Append(s, x) : s \in shorter, x \in names }

NoRepeat(s) == \A i, j \in 1..Len(s) : s[i] = s[j] => i = j

\* form.getFields() lists every field of a template once.
PreviewFieldLists == { s \in SeqsUpTo(PreviewFieldNames, MaxFields) : NoRepeat(s) }

PreviewFormId == "interview_sheet"

InitPreview ==
  /\ NoFormCalls
  /\ NoGeneration
  /\ NoUtilCall
  /\ NoApp
  /\ modalCustomer \in { DefaultProfile, PopulatedProfile }
  /\ pdfTemplates \in [ { PreviewFormId } ->
                          [ mappings : PreviewMappings, discovered_fields : PreviewFieldLists ] ]
  /\ clock = FirstDay
  /\ previewCalls = << >>

\* The last two calls, oldest first.
Remember(calls, c) == IF Len(calls) < 2 THEN Append(calls, c) ELSE << calls[2], c >>

\* A call of generatePreviewData: the date it ran on, what its two reads
\* returned and the list it returned.
CallGeneratePreviewData ==
  \E formId \in DOMAIN pdfTemplates, mappingsError \in BOOLEAN, fieldsError \in BOOLEAN :
    /\ previewCalls' = Remember(previewCalls,
         [ formId |-> formId,
           now |-> clock,
           mappings |-> getMappingsForForm(pdfTemplates, formId, mappingsError),
           discoveredFields |-> getDiscoveredFields(pdfTemplates, formId, fieldsError),
           filledData |-> generatePreviewData(formId, modalCustomer, pdfTemplates,
                                              mappingsError, fieldsError, clock) ])
    /\ UNCHANGED <<modalCustomer, pdfTemplates, clock, formVars, genVars, utilVars, appVars>>

\* Midnight passes.
Tick ==
  /\ clock.day < MaxDay
  /\ clock' = [ clock EXCEPT !.day = @ + 1 ]
  /\ UNCHANGED <<modalCustomer, pdfTemplates, previewCalls, formVars, genVars, utilVars, appVars>>

NextPreview ==
  \/ CallGeneratePreviewData
  \/ Tick

SpecPreview == InitPreview /\ [][NextPreview]_vars

(***************************************************************************)
(* Batch generation: PDFPreviewModal.handleGenerate over the required      *)
(* forms of the selected customer, and the generatePdfBytes calls it makes *)
(*                                                                         *)
(* modal.i is the number of the document the loop is at, counted from 1    *)
(* (the source's i + 1); gen holds the generatePdfBytes calls in the order *)
(* they were made.                                                         *)
(***************************************************************************)

\* The record profile as the JavaScript object the services read.
ProfileValue(c) ==
  LET refs == c.financial_info.references
  IN  Obj([ personal_info |-> Obj(
              [ full_name |-> Str(c.personal_info.full_name), first_name |-> Str(""),
                last_name |-> Str(""),
                phone |-> Str(c.personal_info.phone), email |-> Str(c.personal_info.email),
                address |-> Obj([ full_address |-> Str(c.personal_info.address.full_address),
                                  street |-> Str(""), city |-> Str(""), state |-> Str(""),
                                  zip |-> Str("") ]),
                drivers_license |-> Obj([ number |-> Str(c.personal_info.drivers_license.number),
                                          expiration |-> Str(c.personal_info.drivers_license.expiration),
                                          state |-> Str("OH") ]) ]),
            vehicle_info |-> Obj(
              [ interest_vehicle |-> Obj([ year |-> Str(""),
                                           make |-> Str(c.vehicle_info.interest_vehicle.make),
                                           model |-> Str(c.vehicle_info.interest_vehicle.model),
                                           stock_number |-> Str(""),
                                           vin |-> Str(c.vehicle_info.interest_vehicle.vin) ]),
                trade_vehicle |-> Obj([ year |-> Str(""), make |-> Str(""), model |-> Str(""),
                                        vin |-> Str(c.vehicle_info.trade_vehicle.vin),
                                        lien_holder |-> Str(c.vehicle_info.trade_vehicle.lien_holder),
                                        payoff_amount |-> Num(0) ]),
                trade_in |-> Bool(c.vehicle_info.trade_in),
                purchase_type |-> Str(c.vehicle_info.purchase_type) ]),
            financial_info |-> Obj(
              [ employment |-> Obj([ employer |-> Str(c.financial_info.employment.employer),
                                     position |-> Str(""), income |-> Num(0) ]),
                financing_needed |-> Bool(c.financial_info.financing_needed),
                references |-> Arr([ i \in 1..Len(refs) |->
                                       Obj([ name |-> Str(refs[i].name), phone |-> Str(refs[i].phone),
                                             relationship |-> Str(refs[i].relationship) ]) ]) ]),
            sales_info |-> Obj([ stage |-> Str(c.sales_info.stage),
                                 salesperson |-> Str(SALESPERSON_NAME) ]) ])

\* formsForPreview: getRequiredForms(selectedCustomer).map(f => f.form)
formsForPreview(c) ==
  LET required == getRequiredForms(c)
  IN  [ i \in 1..Len(required) |-> required[i].form ]

\* `Generating ${i + 1}/${forms.length}: ${form.name}...`
ProgressLabel(n, fs) ==
  "Generating " \o ToString(n) \o "/" \o ToString(Len(fs)) \o ": " \o fs[n].name \o "..."

\* The check mark the success message starts with (the character U+2713).
CheckMark == "(U+2713)"

\* `${form.name.replace(/\s/g, '_')}.pdf`
FileName(form) == replaceAll(form.name, WhiteSpace, "_") \o ".pdf"

\* `${customerName}_Deal_Documents.zip`
DownloadName(c) ==
  LET replaced == replaceAll(Get(Get(c, "personal_info"), "full_name").v, WhiteSpace, "_")
      customerName == IF replaced # "" THEN replaced ELSE "Customer"
  IN  customerName \o "_Deal_Documents.zip"

\* Variant: the loop goes on without waiting for the call.
Settled_NoAwait(gcall) == TRUE

\* `await`: the handler goes on when the call has returned or thrown.
Settled(gcall) == gcall.pc \in { "returned", "threw" }

\* When the call has settled its locals are gone: what is left of it is
\* that it returned or threw, for which form, and the error.
Forget(gcall) == [ gcall EXCEPT !.previewData = << >>, !.k = 0, !.log = << >>, !.bytes = << >> ]

\* Variant: a failed document is left out and the loop goes on.
OnError_SkipDocument(m, message) == [ m EXCEPT !.i = @ + 1, !.pc = "loop" ]

\* The catch block of handleGenerate.
OnError(m, message) ==
  [ m EXCEPT !.generationStatus = "error",
             !.generationMessage = "Error: " \o message,
             !.pc = "done" ]

\* Names the selected customer may have: unknown, first and last name, and
\* a text a check box reads as a yes.
GenNames == { "", "Pat Doe", "ON" }

\* The selected customers: every stage, with and without the two
\* conditional documents.
GenProfiles ==
  { [ INITIAL_CUSTOMER_PROFILE EXCEPT
        !.personal_info.full_name = name,
        !.personal_info.phone = IF fin THEN "x" ELSE "",
        !.personal_info.drivers_license.number = IF closing THEN "x" ELSE "",
        !.vehicle_info.interest_vehicle.vin = IF closing THEN "x" ELSE "",
        !.vehicle_info.trade_in = used,
        !.vehicle_info.purchase_type = IF used THEN "used" ELSE "",
        !.financial_info.financing_needed = fin ] :
      name \in GenNames, fin \in BOOLEAN, closing \in BOOLEAN, used \in BOOLEAN }

\* Template fields of the documents: a name field, a trade-in field and a
\* field of the manual-entry list.
GenFieldNames == { "CustomerName", "TradeIn", "SSN" }

GenFieldLists == { s \in SeqsUpTo(GenFieldNames, MaxFields) : NoRepeat(s) }

\* The saved mappings: every field mapped to the profile (the manual-entry
\* field too), or only the name field, mapped to a special value.
GenMappings ==
  { MappingOf([ CustomerName |-> <<"personal_info.full_name">>,
                TradeIn |-> <<"vehicle_info.trade_in">>,
                SSN |-> <<"personal_info.full_name">> ]),
    MappingOf([ CustomerName |-> <<"__SALESPERSON__">>, TradeIn |-> << >>, SSN |-> << >> ]) }

\* The pdf_templates row of every document of the batch; storage_path is
\* '' as long as no template was uploaded.
GenRows ==
  [ mappings : GenMappings, discovered_fields : GenFieldLists,
    storage_path : { "", "template.pdf" } ]

InitGen ==
  /\ customer \in GenProfiles
  /\ catalog = ALL_FORMS
  /\ call = NoCall
  /\ ret = << >>
  /\ modalCustomer = ProfileValue(customer)
  /\ forms = formsForPreview(customer)
  /\ \E row \in GenRows :
       pdfTemplates = [ id \in { forms[i].id : i \in 1..Len(forms) } |-> row ]
  /\ clock = FirstDay
  /\ previewCalls = << >>
  /\ modal = ModalIdle
  /\ gen = GenIdle
  /\ NoUtilCall
  /\ NoApp

genFrame == <<formVars, previewVars, forms, utilVars, appVars>>

\* Variant: the Generate button is enabled again after an error.
HandleGenerate_Retry ==
  /\ ~modal.closed
  /\ modal.generationStatus \in { "idle", "error" }
  /\ modal.pc \in { "idle", "done" }
  /\ modal' = [ modal EXCEPT !.generationStatus = "generating",
                             !.generationMessage = "Initializing...",
                             !.pc = "loop", !.i = 1, !.zip = << >> ]
  /\ UNCHANGED <<gen, genFrame>>

\* The Generate button, enabled while the status is idle.
HandleGenerate ==
  /\ ~modal.closed
  /\ modal.generationStatus = "idle"
  /\ modal' = [ modal EXCEPT !.generationStatus = "generating",
                             !.generationMessage = "Initializing...",
                             !.pc = "loop", !.i = 1, !.zip = << >> ]
  /\ UNCHANGED <<gen, genFrame>>

\* Loop head and setGenerationMessage for the next document.
SetGenerationMessage ==
  /\ modal.pc = "loop"
  /\ modal.i <= Len(forms)
  /\ modal' = [ modal EXCEPT !.generationMessage = ProgressLabel(modal.i, forms), !.pc = "call" ]
  /\ UNCHANGED <<gen, genFrame>>

\* pdfService.generatePdfBytes(form, customer) is called.
CallGeneratePdfBytes ==
  /\ modal.pc = "call"
  /\ gen' = Append(gen, NewCall(forms[modal.i]))
  /\ modal' = [ modal EXCEPT !.pc = "await" ]
  /\ UNCHANGED genFrame

GetTemplateFile ==
  \E j \in 1..Len(gen), dbError \in BOOLEAN, storageError \in BOOLEAN :
    /\ gen[j].pc = "getTemplateFile"
    /\ gen' = [ gen EXCEPT ![j] = AfterGetTemplateFile(@, pdfTemplates, dbError, storageError) ]
    /\ UNCHANGED <<modal, genFrame>>

Load ==
  \E j \in 1..Len(gen), corrupt \in BOOLEAN :
    /\ gen[j].pc = "load"
    /\ gen' = [ gen EXCEPT ![j] = AfterLoad(@, corrupt) ]
    /\ UNCHANGED <<modal, genFrame>>

Preview ==
  \E j \in 1..Len(gen), mappingsError \in BOOLEAN, fieldsError \in BOOLEAN :
    /\ gen[j].pc = "generatePreviewData"
    /\ gen' = [ gen EXCEPT ![j] =
                  AfterPreview(@, generatePreviewData(@.form.id, modalCustomer, pdfTemplates,
                                                      mappingsError, fieldsError, clock)) ]
    /\ UNCHANGED <<modal, genFrame>>

WriteField ==
  \E j \in 1..Len(gen), found \in TemplateFields :
    /\ gen[j].pc = "fill"
    /\ gen[j].k < Len(gen[j].previewData)
    /\ gen' = [ gen EXCEPT ![j] = FillField(@, found) ]
    /\ UNCHANGED <<modal, genFrame>>

Flatten ==
  \E j \in 1..Len(gen) :
    /\ gen[j].pc = "fill"
    /\ gen[j].k = Len(gen[j].previewData)
    /\ gen' = [ gen EXCEPT ![j] = AfterFlatten(@) ]
    /\ UNCHANGED <<modal, genFrame>>

Save ==
  \E j \in 1..Len(gen) :
    /\ gen[j].pc = "save"
    /\ gen' = [ gen EXCEPT ![j] = AfterSave(@) ]
    /\ UNCHANGED <<modal, genFrame>>

\* The awaited call returned: zip.file(name, pdfBytes), i++.
ZipFile ==
  /\ modal.pc = "await"
  /\ Settled(gen[modal.i])
  /\ gen[modal.i].pc # "threw"
  /\ modal' = [ modal EXCEPT
                  !.zip = MapSet(@, FileName(forms[modal.i]), [ of |-> forms[modal.i].id ]),
                  !.i = @ + 1, !.pc = "loop" ]
  /\ gen' = [ gen EXCEPT ![modal.i] = Forget(@) ]
  /\ UNCHANGED genFrame

\* The awaited call threw: the catch block.
Catch ==
  /\ modal.pc = "await"
  /\ Settled(gen[modal.i])
  /\ gen[modal.i].pc = "threw"
  /\ modal' = OnError(modal, gen[modal.i].error)
  /\ UNCHANGED <<gen, genFrame>>

\* The loop is over: 'Creating ZIP file...', zip.generateAsync is called.
CreateZip ==
  /\ modal.pc = "loop"
  /\ modal.i > Len(forms)
  /\ modal' = [ modal EXCEPT !.generationMessage = "Creating ZIP file...", !.pc = "generateAsync" ]
  /\ UNCHANGED <<gen, genFrame>>

\* The archive is there: the download link is clicked, the status is
\* success and the timer that closes the modal is set.
Download ==
  /\ modal.pc = "generateAsync"
  /\ modal' = [ modal EXCEPT !.zipBlob = modal.zip,
                             !.download = DownloadName(modalCustomer),
                             !.generationStatus = "success",
                             !.generationMessage = CheckMark \o " Generation Complete!",
                             !.timer = TRUE, !.pc = "done" ]
  /\ UNCHANGED <<gen, genFrame>>

\* setTimeout(() => onClose(), 1500)
OnClose ==
  /\ modal.timer
  /\ modal' = [ modal EXCEPT !.timer = FALSE, !.closed = TRUE ]
  /\ UNCHANGED <<gen, genFrame>>

\* The close and Cancel buttons, disabled while generating.
CloseModal ==
  /\ ~modal.closed
  /\ modal.generationStatus # "generating"
  /\ modal' = [ modal EXCEPT !.closed = TRUE ]
  /\ UNCHANGED <<gen, genFrame>>

NextGen ==
  \/ HandleGenerate
  \/ SetGenerationMessage
  \/ CallGeneratePdfBytes
  \/ GetTemplateFile
  \/ Load
  \/ Preview
  \/ WriteField
  \/ Flatten
  \/ Save
  \/ ZipFile
  \/ Catch
  \/ CreateZip
  \/ Download
  \/ OnClose
  \/ CloseModal

SpecGen == InitGen /\ [][NextGen]_vars

(***************************************************************************)
(* Calls of the utilities getValueByPath, getCustomerProfileFlatKeys and   *)
(* deepMerge                                                               *)
(***************************************************************************)

\* A reference entry as a JavaScript object.
RefValue(text) == Obj([ name |-> Str(text), phone |-> Str(text), relationship |-> Str(text) ])

\* The object with the properties whose choice is not << >>.
ObjOf(choice) ==
  Obj([ n \in { m \in DOMAIN choice : Len(choice[m]) > 0 } |-> choice[n][1] ])

\* x with the leaf at the path `parts` set to v (x unchanged when the path
\* does not lead through objects of x).
RECURSIVE With(_, _, _)
With(x, parts, v) ==
  IF parts = << >> THEN v
  ELSE IF x.t = "object" /\ Head(parts) \in DOMAIN x.v
    THEN Obj([ x.v EXCEPT ![Head(parts)] = With(@, Tail(parts), v) ])
  ELSE x

\* x without the property at the path `parts`.
RECURSIVE Without(_, _)
Without(x, parts) ==
  IF x.t # "object" \/ Head(parts) \notin DOMAIN x.v THEN x
  ELSE IF Len(parts) = 1
    THEN Obj([ k \in DOMAIN x.v \ { Head(parts) } |-> x.v[k] ])
  ELSE Obj([ x.v EXCEPT ![Head(parts)] = Without(@, Tail(parts)) ])

\* Every leaf of x populated: strings s, numbers n, booleans b, arrays refs.
RECURSIVE Populate(_, _, _, _, _)
Populate(x, s, n, b, refs) ==
  CASE x.t = "object"  -> Obj([ k \in DOMAIN x.v |-> Populate(x.v[k], s, n, b, refs) ])
    [] x.t = "string"  -> Str(s)
    [] x.t = "number"  -> Num(n)
    [] x.t = "boolean" -> Bool(b)
    [] x.t = "array"   -> Arr(refs)
    [] OTHER           -> x

\* Texts and truth values the leaves of a populated profile take.
FullTexts == << "x", "0" >>
FullFlags == << TRUE, FALSE >>

\* A profile in which every leaf is populated.
FullProfile(s, b, len) ==
  Populate(DefaultProfile, FullTexts[s], 5, FullFlags[b], [ i \in 1..len |-> RefValue(FullTexts[s]) ])

\* Roots getValueByPath is called on, besides the populated profiles.
PathRoots == << DefaultProfile, PopulatedProfile, Undefined, Null, Str("x"), Num(0) >>

\* Paths: the flat keys of the profile, paths to a section, to leaves that
\* do not exist, through leaves of every type, and degenerate ones.
Paths ==
  { generateFlatKeys(DefaultProfile, "")[i] :
      i \in 1..Len(generateFlatKeys(DefaultProfile, "")) }
  \cup { "personal_info", "personal_info.nickname", "personal_info.email.domain",
         "personal_info.full_name.length", "personal_info.phone.area",
         "personal_info.drivers_license.is_expired",
         "personal_info.drivers_license.is_expired.since",
         "vehicle_info.trade_in.since", "vehicle_info.trade_vehicle.payoff_amount.cents",
         "financial_info.employment.income.net", "financial_info.references.length",
         "financial_info.references.0.name", "financial_info.references.1.name",
         "", "length", "personal_info.", "personal_info..full_name" }

\* Names and payoff amounts of stored profiles.
StoredNames == << "", "x" >>
StoredPayoffs == << 0, 5 >>

\* A stored profile deepMerge is called on: the name, the payoff amount and
\* the references known or not, the license part there or not.
MergeTarget(name, payoff, refs, license) ==
  LET named == With(DefaultProfile, << "personal_info", "full_name" >>, Str(StoredNames[name]))
      owing == With(named, << "vehicle_info", "trade_vehicle", "payoff_amount" >>,
                    Num(StoredPayoffs[payoff]))
      refd == With(owing, << "financial_info", "references" >>,
                   Arr([ i \in 1..refs |-> RefValue("x") ]))
  IN  IF license THEN refd ELSE Without(refd, << "personal_info", "drivers_license" >>)

\* A scanned license as handleImageUpload passes it on.
LicenseUpdate ==
  Obj([ number |-> Str("AB123456"), expiration |-> Str("01-01-2030"), state |-> Str("OH"),
        is_expired |-> Bool(FALSE) ])

\* What a partial profile says of a leaf: nothing (<< >>) or a value.
IncomingNames == << << >>, << Str("") >>, << Str("y") >>, << Null >> >>
IncomingLicenses == << << >>, << LicenseUpdate >> >>
IncomingPayoffs == << << >>, << Num(0) >>, << Num(7) >> >>
IncomingReferences == << << >>, << Arr(<< >>) >>, << Arr(<< RefValue("y") >>) >> >>

\* A partial profile: any of a name (also '' or null), a license, a payoff
\* amount (also 0) and a reference list (also []).
MergeSource(name, license, payoff, refs) ==
  LET pi == ObjOf([ full_name |-> IncomingNames[name],
                    drivers_license |-> IncomingLicenses[license] ])
      tv == ObjOf([ payoff_amount |-> IncomingPayoffs[payoff] ])
      vi == ObjOf([ trade_vehicle |-> IF DOMAIN tv.v = {} THEN << >> ELSE << tv >> ])
      fi == ObjOf([ references |-> IncomingReferences[refs] ])
  IN  ObjOf([ personal_info |-> IF DOMAIN pi.v = {} THEN << >> ELSE << pi >>,
              vehicle_info |-> IF DOMAIN vi.v = {} THEN << >> ELSE << vi >>,
              financial_info |-> IF DOMAIN fi.v = {} THEN << >> ELSE << fi >> ])

\* The values every call draws on.  They are compared once in the initial
\* state, which brings them into TLC's normal form before any step uses them.
UtilInputs ==
  << DefaultProfile, PopulatedProfile, PathRoots, Paths, LicenseUpdate, IncomingNames,
     IncomingLicenses, IncomingPayoffs, IncomingReferences >>

InitUtil ==
  /\ NoFormCalls
  /\ NoPreview
  /\ NoGeneration
  /\ NoUtilCall
  /\ NoApp
  /\ UtilInputs = UtilInputs

utilFrame == <<formVars, previewVars, genVars, appVars>>

\* getValueByPath(obj, path) returns.
GetValueByPathCall(obj, path) ==
  /\ util' = [ op |-> "getValueByPath", args |-> << obj, Str(path) >>,
               result |-> getValueByPath(obj, path) ]
  /\ UNCHANGED utilFrame

CallGetValueByPath ==
  \E path \in Paths :
    /\ NoUtilCall
    /\ \/ \E r \in 1..Len(PathRoots) : GetValueByPathCall(PathRoots[r], path)
       \/ \E s \in 1..Len(FullTexts), b \in 1..Len(FullFlags), len \in 1..MaxRefs :
            GetValueByPathCall(FullProfile(s, b, len), path)

\* getCustomerProfileFlatKeys: the keys are those of INITIAL_CUSTOMER_PROFILE.
CallGetCustomerProfileFlatKeys ==
  /\ NoUtilCall
  /\ util' = [ op |-> "generateFlatKeys", args |-> << DefaultProfile >>,
               result |-> Arr([ i \in 1..Len(generateFlatKeys(DefaultProfile, "")) |->
                                  Str(generateFlatKeys(DefaultProfile, "")[i]) ]) ]
  /\ UNCHANGED utilFrame

\* deepMerge(target, source) returns; it is the n-th merge of a sequence.
DeepMergeCall(target, source, n) ==
  /\ util' = [ op |-> "deepMerge", args |-> << target, source >>,
               result |-> deepMerge(target, source), merges |-> n ]
  /\ UNCHANGED utilFrame

\* deepMerge on a stored profile, or on the outcome of the merge before.
CallDeepMerge ==
  \E name \in 1..Len(IncomingNames), license \in 1..Len(IncomingLicenses),
     payoff \in 1..Len(IncomingPayoffs), refs \in 1..Len(IncomingReferences) :
    \/ /\ NoUtilCall
       /\ \E n \in 1..Len(StoredNames), p \in 1..Len(StoredPayoffs), r \in 0..MaxRefs,
             l \in BOOLEAN :
            DeepMergeCall(MergeTarget(n, p, r, l), MergeSource(name, license, payoff, refs), 1)
    \/ /\ util.op = "deepMerge"
       /\ util.merges < MaxMerges
       /\ DeepMergeCall(util.result, MergeSource(name, license, payoff, refs), util.merges + 1)

\* The call is done with; the next one is looked at.
ForgetCall ==
  /\ ~NoUtilCall
  /\ util' = UtilIdle
  /\ UNCHANGED utilFrame

NextUtil ==
  \/ CallGetValueByPath
  \/ CallGetCustomerProfileFlatKeys
  \/ CallDeepMerge
  \/ ForgetCall

SpecUtil == InitUtil /\ [][NextUtil]_vars

(***************************************************************************)
(* The chat application: App, its message loads and its two handlers       *)
(***************************************************************************)

\* The customers of the database, newest first.
CustomerIds == << "c1", "c2" >>

\* A row of the messages table, and a message of the chat.  `of` is not a
\* field of Message: it records whose conversation the message was written
\* in.
Row(customerId, msg) == [ customer_id |-> customerId, role |-> msg.role, text |-> msg.text ]
Message(role, text, customerId) == [ role |-> role, text |-> text, of |-> customerId ]

\* The texts the handlers write.
UserText == "My name is Pat Doe"
UploadedFileName == "license.jpg"
UploadText == "Uploaded driver's license: " \o UploadedFileName
ProfileUpdatedText == "Profile updated."
NotedText == "Noted. Is there anything else?"
SorryText == "Sorry, I couldn't process that. Please try again."
ScannedText ==
  "Driver's license scanned and profile updated. License #: AB123456, Expires: 01-01-2030."
ExpiredText ==
  "(U+26A0) LICENSE EXPIRED: Scanned license expired on 01-01-2020. Profile has been updated with a warning."
NotExtractedText ==
  "I couldn't extract the license number or expiration date from that image. Please try another photo or enter it manually."
ImageErrorText == "There was an error processing the image."
FileErrorText == "Could not read the uploaded file."

\* What extractDataFromText returns: nothing, or a name.
ExtractedFromText == << Obj(<< >>), Obj([ personal_info |-> Obj([ full_name |-> Str("Pat Doe") ]) ]) >>

\* The update handleImageUpload builds for a scanned license.
LicensePartial(expired) ==
  Obj([ personal_info |-> Obj([ drivers_license |->
          Obj([ number |-> Str("AB123456"),
                expiration |-> Str(IF expired THEN "01-01-2020" ELSE "01-01-2030"),
                state |-> Str("OH"),
                is_expired |-> Bool(expired) ]) ]) ])

\* getMessagesFromStorage(customerId) on the rows of the table.
RECURSIVE getMessagesFromStorage(_, _)
getMessagesFromStorage(rows, customerId) ==
  IF rows = << >> THEN << >>
  ELSE (IF Head(rows).customer_id = customerId
          THEN << Message(Head(rows).role, Head(rows).text, customerId) >>
          ELSE << >>) \o getMessagesFromStorage(Tail(rows), customerId)

\* appendMessagesToStorage(customerId, msg) when the insert succeeds.
appendMessagesToStorage(database, customerId, msg) ==
  [ database EXCEPT !.messages = Append(@, Row(customerId, msg)) ]

\* A running or settled handler or load.  customerId is the
\* selectedCustomerId its closure holds; partial, current, fetchError and
\* outcome belong to its call of updateCustomerInStorage; reply is the
\* assistant message it built.
NewTask(kind, pc, customerId) ==
  [ kind |-> kind, pc |-> pc, customerId |-> customerId,
    partial |-> Undefined, current |-> Undefined, fetchError |-> FALSE,
    outcome |-> "none", reply |-> "" ]

\* The handlers and loads that have not settled.
Ended(task) == task.pc \in { "done", "rejected" }
InFlight == { j \in 1..Len(tasks) : ~Ended(tasks[j]) }
Count(kind) == Cardinality({ j \in 1..Len(tasks) : tasks[j].kind = kind })

\* The part of a new customer's row the two handlers write to: the
\* personal_info of INITIAL_CUSTOMER_PROFILE.
NewCustomerRow == Obj([ personal_info |-> Get(DefaultProfile, "personal_info") ])

\* The database the application starts on: two customers as createNewCustomer
\* left them, and a message of an earlier conversation with each.
DbStart ==
  [ customers |-> [ id \in { CustomerIds[i] : i \in 1..Len(CustomerIds) } |-> NewCustomerRow ],
    messages |-> [ i \in 1..Len(CustomerIds) |->
                     Row(CustomerIds[i], [ role |-> "user", text |-> "Hello" ]) ] ]

\* App is mounted: loadInitialData is running.
InitApp ==
  /\ NoFormCalls
  /\ NoPreview
  /\ NoGeneration
  /\ NoUtilCall
  /\ db = DbStart
  /\ app = AppIdle
  /\ tasks = << NewTask("loadInitialData", "await", "") >>
  /\ faults = 0

appFrame == <<formVars, previewVars, genVars, utilVars>>

\* setError(text)
SetError(state, text) == [ state EXCEPT !.error = text ]

\* setMessages(prev => [...prev, msg])
AddMessage(state, msg) == [ state EXCEPT !.messages = Append(@, msg) ]

\* The effect on selectedCustomerId: a change of the selection starts
\* loadMessages for the new selection.
LoadMessagesEffect(ts, before, after) ==
  IF after # before /\ after # "" THEN Append(ts, NewTask("loadMessages", "await", after)) ELSE ts

\* loadInitialData settles: the customers are set and, as none was selected
\* when App mounted, the first one is selected; or the read failed.
\* A read, a write, an extraction or a file read fails or not; the failures
\* of a session are counted.
Fault(failed) ==
  /\ failed => faults < MaxFaults
  /\ faults' = IF failed THEN faults + 1 ELSE faults

LoadInitialData ==
  \E j \in 1..Len(tasks), ok \in BOOLEAN :
    /\ Fault(~ok)
    /\ tasks[j].kind = "loadInitialData" /\ tasks[j].pc = "await"
    /\ LET first == IF Len(CustomerIds) > 0 THEN CustomerIds[1] ELSE app.selectedCustomerId
           ended == [ tasks EXCEPT ![j].pc = "done" ]
       IN  IF ok
             THEN /\ app' = [ app EXCEPT !.customers = db.customers, !.selectedCustomerId = first ]
                  /\ tasks' = LoadMessagesEffect(ended, app.selectedCustomerId, first)
             ELSE /\ app' = SetError(app, "Failed to load customer data from the database. Please check your connection and refresh.")
                  /\ tasks' = ended
    /\ UNCHANGED <<db, appFrame>>

\* handleSelectCustomer(id), from the customer list.
HandleSelectCustomer ==
  \E id \in DOMAIN app.customers :
    /\ id # app.selectedCustomerId
    /\ Count("loadMessages") < MaxLoads
    /\ app' = [ app EXCEPT !.selectedCustomerId = id ]
    /\ tasks' = LoadMessagesEffect(tasks, app.selectedCustomerId, id)
    /\ UNCHANGED <<db, faults, appFrame>>

\* loadMessages settles, whatever is selected by now.
LoadMessages ==
  \E j \in 1..Len(tasks), ok \in BOOLEAN :
    /\ Fault(~ok)
    /\ tasks[j].kind = "loadMessages" /\ tasks[j].pc = "await"
    /\ app' = IF ok
                THEN [ app EXCEPT !.messages = getMessagesFromStorage(db.messages, tasks[j].customerId) ]
                ELSE [ SetError(app, "Failed to load messages for the selected customer.")
                         EXCEPT !.messages = << >> ]
    /\ tasks' = [ tasks EXCEPT ![j].pc = "done" ]
    /\ UNCHANGED <<db, appFrame>>

\* The chat is on screen: a customer of the list is selected.
ChatShown ==
  /\ app.selectedCustomerId # ""
  /\ app.selectedCustomerId \in DOMAIN app.customers

\* handleSendMessage(text) up to its first await.  The input and the Send
\* button are disabled while isAiThinking.
HandleSendMessage ==
  /\ ChatShown
  /\ ~app.isAiThinking
  /\ Count("handleSendMessage") < MaxSends
  /\ app' = [ AddMessage(app, Message("user", UserText, app.selectedCustomerId))
                EXCEPT !.error = "", !.isAiThinking = TRUE ]
  /\ tasks' = Append(tasks, NewTask("handleSendMessage", "appendUser", app.selectedCustomerId))
  /\ UNCHANGED <<db, faults, appFrame>>

\* The catch block of handleSendMessage up to its await.
SendCatch(state, customerId) ==
  AddMessage(SetError(state, "The AI failed to process the message. Please try rephrasing or check your connection."),
             Message("assistant", SorryText, customerId))

\* await appendMessagesToStorage(selectedCustomerId, userMessage)
AppendUserMessage ==
  \E j \in 1..Len(tasks), ok \in BOOLEAN :
    /\ Fault(~ok)
    /\ tasks[j].kind = "handleSendMessage" /\ tasks[j].pc = "appendUser"
    /\ IF ok
         THEN /\ db' = appendMessagesToStorage(db, tasks[j].customerId,
                                               [ role |-> "user", text |-> UserText ])
              /\ tasks' = [ tasks EXCEPT ![j].pc = "extract" ]
              /\ app' = app
         ELSE /\ app' = SendCatch(app, tasks[j].customerId)
              /\ tasks' = [ tasks EXCEPT ![j].pc = "appendError" ]
              /\ db' = db
    /\ UNCHANGED appFrame

\* await extractDataFromText(text, currentCustomer): it throws, or returns
\* data; with data updateCustomerProfile starts, without the note is shown.
ExtractDataFromText ==
  \E j \in 1..Len(tasks), e \in 0..Len(ExtractedFromText) :
    /\ Fault(e = 0)
    /\ tasks[j].kind = "handleSendMessage" /\ tasks[j].pc = "extract"
    /\ IF e = 0
         THEN /\ app' = SendCatch(app, tasks[j].customerId)
              /\ tasks' = [ tasks EXCEPT ![j].pc = "appendError" ]
         ELSE IF Len(ObjectKeys(ExtractedFromText[e])) > 0
           THEN /\ app' = SetError(app, "")
                /\ tasks' = [ tasks EXCEPT ![j].pc = "read", ![j].partial = ExtractedFromText[e] ]
           ELSE /\ app' = AddMessage(app, Message("assistant", NotedText, tasks[j].customerId))
                /\ tasks' = [ tasks EXCEPT ![j].pc = "appendSystem", ![j].reply = NotedText ]
    /\ UNCHANGED <<db, appFrame>>

\* The text a handler answers with once updateCustomerProfile has returned.
Confirmation(task) ==
  IF task.kind = "handleSendMessage" THEN ProfileUpdatedText
  ELSE IF getValueByPath(task.partial, "personal_info.drivers_license.is_expired").v
    THEN ExpiredText
  ELSE ScannedText

\* updateCustomerProfile has returned (it returns nothing and never throws):
\* the handler builds its message.
AfterUpdate(task, outcome) ==
  [ task EXCEPT !.outcome = outcome,
                !.reply = Confirmation(task),
                !.pc = IF task.kind = "handleSendMessage" THEN "appendSystem" ELSE "appendAssistant" ]

\* updateCustomerInStorage, the read of the customer: on an error or without
\* a row it returns null, which updateCustomerProfile passes over.
ReadCustomer ==
  \E j \in 1..Len(tasks), fetchError \in BOOLEAN :
    /\ Fault(fetchError)
    /\ tasks[j].pc = "read"
    /\ LET customerId == tasks[j].customerId
           missing == fetchError \/ customerId \notin DOMAIN db.customers
           returned == AfterUpdate([ tasks[j] EXCEPT !.fetchError = fetchError ], "null")
       IN  IF missing
             THEN /\ tasks' = [ tasks EXCEPT ![j] = returned ]
                  /\ app' = AddMessage(app, Message("assistant", returned.reply, customerId))
             ELSE /\ tasks' = [ tasks EXCEPT ![j].pc = "write", ![j].current = db.customers[customerId] ]
                  /\ app' = app
    /\ UNCHANGED <<db, appFrame>>

\* updateCustomerInStorage, the write of the merged profile: the row is
\* replaced and set in customers, or the write fails, which
\* updateCustomerProfile catches.
WriteCustomer ==
  \E j \in 1..Len(tasks), updateError \in BOOLEAN :
    /\ Fault(updateError)
    /\ tasks[j].pc = "write"
    /\ LET customerId == tasks[j].customerId
           updatedData == deepMerge(tasks[j].current, tasks[j].partial)
           returned == AfterUpdate(tasks[j], IF updateError THEN "threw" ELSE "data")
           said == AddMessage(app, Message("assistant", returned.reply, customerId))
       IN  /\ tasks' = [ tasks EXCEPT ![j] = returned ]
           /\ IF updateError
                THEN /\ db' = db
                     /\ app' = AddMessage(SetError(app, "Failed to save customer profile update."),
                                          Message("assistant", returned.reply, customerId))
                ELSE /\ db' = [ db EXCEPT !.customers[customerId] = updatedData ]
                     /\ app' = IF customerId \in DOMAIN app.customers
                                 THEN [ said EXCEPT !.customers[customerId] = updatedData ]
                                 ELSE said
    /\ UNCHANGED appFrame

\* await appendMessagesToStorage(selectedCustomerId, systemMessage), then
\* the finally block; a failure goes to the catch block.
AppendSystemMessage ==
  \E j \in 1..Len(tasks), ok \in BOOLEAN :
    /\ Fault(~ok)
    /\ tasks[j].kind = "handleSendMessage" /\ tasks[j].pc = "appendSystem"
    /\ IF ok
         THEN /\ db' = appendMessagesToStorage(db, tasks[j].customerId,
                                               [ role |-> "assistant", text |-> tasks[j].reply ])
              /\ app' = [ app EXCEPT !.isAiThinking = FALSE ]
              /\ tasks' = [ tasks EXCEPT ![j].pc = "done" ]
         ELSE /\ db' = db
              /\ app' = SendCatch(app, tasks[j].customerId)
              /\ tasks' = [ tasks EXCEPT ![j].pc = "appendError" ]
    /\ UNCHANGED appFrame

\* The catch block's await appendMessagesToStorage(selectedCustomerId,
\* errorMessage) in its own try, then the finally block.
AppendErrorMessage ==
  \E j \in 1..Len(tasks), ok \in BOOLEAN :
    /\ Fault(~ok)
    /\ tasks[j].kind = "handleSendMessage" /\ tasks[j].pc = "appendError"
    /\ IF ok
         THEN /\ db' = appendMessagesToStorage(db, tasks[j].customerId,
                                               [ role |-> "assistant", text |-> SorryText ])
              /\ app' = [ app EXCEPT !.isAiThinking = FALSE ]
         ELSE /\ db' = db
              /\ app' = [ SetError(app, "AI Error & Failed to save chat history. Check connection.")
                            EXCEPT !.isAiThinking = FALSE ]
    /\ tasks' = [ tasks EXCEPT ![j].pc = "done" ]
    /\ UNCHANGED appFrame

\* handleImageUpload(file) up to its first await.  The upload button is
\* never disabled.
HandleImageUpload ==
  /\ ChatShown
  /\ Count("handleImageUpload") < MaxUploads
  /\ app' = [ AddMessage(app, Message("user", UploadText, app.selectedCustomerId))
                EXCEPT !.error = "", !.isAiThinking = TRUE ]
  /\ tasks' = Append(tasks, NewTask("handleImageUpload", "appendUpload", app.selectedCustomerId))
  /\ UNCHANGED <<db, faults, appFrame>>

\* await appendMessagesToStorage(selectedCustomerId, uploadMessage): no try
\* is around it, a failure rejects the promise handleImageUpload returned.
AppendUploadMessage ==
  \E j \in 1..Len(tasks), ok \in BOOLEAN :
    /\ Fault(~ok)
    /\ tasks[j].kind = "handleImageUpload" /\ tasks[j].pc = "appendUpload"
    /\ IF ok
         THEN /\ db' = appendMessagesToStorage(db, tasks[j].customerId,
                                               [ role |-> "user", text |-> UploadText ])
              /\ tasks' = [ tasks EXCEPT ![j].pc = "readAsDataURL" ]
         ELSE /\ db' = db
              /\ tasks' = [ tasks EXCEPT ![j].pc = "rejected" ]
    /\ UNCHANGED <<app, appFrame>>

\* The FileReader settles: reader.onload starts processImage, reader.onerror
\* runs up to its await.
ReadAsDataURL ==
  \E j \in 1..Len(tasks), ok \in BOOLEAN :
    /\ Fault(~ok)
    /\ tasks[j].kind = "handleImageUpload" /\ tasks[j].pc = "readAsDataURL"
    /\ IF ok
         THEN /\ tasks' = [ tasks EXCEPT ![j].pc = "extract" ]
              /\ app' = app
         ELSE /\ tasks' = [ tasks EXCEPT ![j].pc = "appendFileError" ]
              /\ app' = AddMessage([ SetError(app, "Could not read the uploaded file. It may be corrupted.")
                                       EXCEPT !.isAiThinking = FALSE ],
                                   Message("assistant", FileErrorText, tasks[j].customerId))
    /\ UNCHANGED <<db, appFrame>>

\* What extractDataFromImage does: it throws, it finds no number or no
\* expiration date, it reads a valid license, it reads an expired one.
Scans == { "throws", "unreadable", "valid", "expired" }

\* processImage up to the call of updateCustomerProfile, or to its end when
\* there is nothing to save; then setMessages with its message.
ExtractDataFromImage ==
  \E j \in 1..Len(tasks), scan \in Scans :
    /\ Fault(scan = "throws")
    /\ tasks[j].kind = "handleImageUpload" /\ tasks[j].pc = "extract"
    /\ LET customerId == tasks[j].customerId
       IN  CASE scan = "throws" ->
                  /\ app' = AddMessage(SetError(app, "A system error occurred while processing the image. Please try again later."),
                                       Message("assistant", ImageErrorText, customerId))
                  /\ tasks' = [ tasks EXCEPT ![j].pc = "appendAssistant", ![j].reply = ImageErrorText ]
             [] scan = "unreadable" ->
                  /\ app' = AddMessage(SetError(app, "The AI could not extract data from the license image. Please try a clearer picture."),
                                       Message("assistant", NotExtractedText, customerId))
                  /\ tasks' = [ tasks EXCEPT ![j].pc = "appendAssistant", ![j].reply = NotExtractedText ]
             [] OTHER ->
                  /\ app' = SetError(app, "")
                  /\ tasks' = [ tasks EXCEPT ![j].pc = "read",
                                             ![j].partial = LicensePartial(scan = "expired") ]
    /\ UNCHANGED <<db, appFrame>>

\* await appendMessagesToStorage(selectedCustomerId, assistantMessage) in
\* reader.onload, then setIsAiThinking(false); no try is around it.
AppendAssistantMessage ==
  \E j \in 1..Len(tasks), ok \in BOOLEAN :
    /\ Fault(~ok)
    /\ tasks[j].kind = "handleImageUpload" /\ tasks[j].pc = "appendAssistant"
    /\ IF ok
         THEN /\ db' = appendMessagesToStorage(db, tasks[j].customerId,
                                               [ role |-> "assistant", text |-> tasks[j].reply ])
              /\ app' = [ app EXCEPT !.isAiThinking = FALSE ]
              /\ tasks' = [ tasks EXCEPT ![j].pc = "done" ]
         ELSE /\ db' = db
              /\ app' = app
              /\ tasks' = [ tasks EXCEPT ![j].pc = "rejected" ]
    /\ UNCHANGED appFrame

\* await appendMessagesToStorage(selectedCustomerId, errorMessage) in
\* reader.onerror.
AppendFileErrorMessage ==
  \E j \in 1..Len(tasks), ok \in BOOLEAN :
    /\ Fault(~ok)
    /\ tasks[j].kind = "handleImageUpload" /\ tasks[j].pc = "appendFileError"
    /\ IF ok
         THEN /\ db' = appendMessagesToStorage(db, tasks[j].customerId,
                                               [ role |-> "assistant", text |-> FileErrorText ])
              /\ tasks' = [ tasks EXCEPT ![j].pc = "done" ]
         ELSE /\ db' = db
              /\ tasks' = [ tasks EXCEPT ![j].pc = "rejected" ]
    /\ UNCHANGED <<app, appFrame>>

NextApp ==
  \/ LoadInitialData
  \/ HandleSelectCustomer
  \/ LoadMessages
  \/ HandleSendMessage
  \/ AppendUserMessage
  \/ ExtractDataFromText
  \/ ReadCustomer
  \/ WriteCustomer
  \/ AppendSystemMessage
  \/ AppendErrorMessage
  \/ HandleImageUpload
  \/ AppendUploadMessage
  \/ ReadAsDataURL
  \/ ExtractDataFromImage
  \/ AppendAssistantMessage
  \/ AppendFileErrorMessage

SpecApp == InitApp /\ [][NextApp]_vars

(***************************************************************************)
(* Properties                                                              *)
(***************************************************************************)

\* Shorthands for the state of a finished call.
Returned(op) == call.op = op

Vin == customer.vehicle_info.interest_vehicle.vin
LicenseNumber == customer.personal_info.drivers_license.number
FullName == customer.personal_info.full_name
Phone == customer.personal_info.phone
FinancingNeeded == customer.financial_info.financing_needed
TradeIn == customer.vehicle_info.trade_in
PurchaseType == customer.vehicle_info.purchase_type

IsClosing == Vin # "" /\ LicenseNumber # ""
IsFinancing == ~IsClosing /\ FinancingNeeded /\ FullName # "" /\ Phone # ""

\* The ids of a returned list, in order, and the reasons listed for an id.
ListedIds(list) == [ i \in 1..Len(list) |-> list[i].form.id ]
Listed(list, id) == \E i \in 1..Len(list) : list[i].form.id = id
ReasonsOf(list, id) == { list[i].reason : i \in { j \in 1..Len(list) : list[j].form.id = id } }

\* C1: a profile with a non-empty interest-vehicle VIN and a non-empty
\* license number is classified 'closing', whatever financing_needed,
\* full_name and phone are.
C1_ClosingWins ==
  (Returned("determineStage") /\ Vin # "" /\ LicenseNumber # "") => ret = "closing"

C1_Witness ==
  /\ Returned("determineStage")
  /\ Vin # "" /\ LicenseNumber # ""
  /\ FinancingNeeded /\ FullName # "" /\ Phone # ""
  /\ ret = "closing"

\* The profile that keeps only the five fields of the classification rules
\* and has every other field at its default.
ClassificationFieldsOnly ==
  [ INITIAL_CUSTOMER_PROFILE EXCEPT
      !.personal_info.full_name = FullName,
      !.personal_info.phone = Phone,
      !.personal_info.drivers_license.number = LicenseNumber,
      !.vehicle_info.interest_vehicle.vin = Vin,
      !.financial_info.financing_needed = FinancingNeeded ]

\* C2: a profile that is not closing is classified 'financing' exactly when
\* financing_needed is true and full_name and phone are non-empty, and
\* 'initial_contact' otherwise; the result is the one of the profile that
\* differs in every other field (email, trade_in, purchase_type, stored
\* stage, ...) being at its default.
C2_FinancingOrInitial ==
  (Returned("determineStage") /\ ~IsClosing) =>
     /\ ret = (IF FinancingNeeded /\ FullName # "" /\ Phone # ""
                 THEN "financing" ELSE "initial_contact")
     /\ ret = determineStage(ClassificationFieldsOnly)

C2_Witness ==
  /\ Returned("determineStage") /\ ~IsClosing
  /\ FinancingNeeded /\ FullName # "" /\ Phone # ""
  /\ customer.sales_info.stage = "closing"
  /\ TradeIn /\ PurchaseType = "new" /\ customer.personal_info.email # ""
  /\ ret = "financing"

\* C3: for a financing profile with trade_in = false and purchase_type = ""
\* the list is exactly credit_application and reference_sheet, each with
\* reason "Stage: financing".
C3_FinancingForms ==
  (Returned("getRequiredForms") /\ determineStage(customer) = "financing"
     /\ ~TradeIn /\ PurchaseType = "") =>
     /\ Len(ret) = 2
     /\ { ret[i] : i \in 1..Len(ret) } =
          { [ form |-> [ id |-> "credit_application", name |-> "Credit Application (F&I)",
                         stage |-> "financing" ],
              reason |-> "Stage: financing" ],
            [ form |-> [ id |-> "reference_sheet", name |-> "Reference Sheet",
                         stage |-> "financing" ],
              reason |-> "Stage: financing" ] }

C3_Witness ==
  /\ Returned("getRequiredForms") /\ IsFinancing
  /\ ~TradeIn /\ PurchaseType = ""
  /\ Len(ret) = 2

\* C4: with purchase_type = "new" the list contains oil_changes_form with
\* reason "New Vehicle", in every stage; with any other purchase_type
\* oil_changes_form is not listed.
C4_OilChangesForm ==
  Returned("getRequiredForms") =>
     IF PurchaseType = "new"
       THEN ReasonsOf(ret, "oil_changes_form") = {"New Vehicle"}
       ELSE ~Listed(ret, "oil_changes_form")

C4_Witness ==
  /\ Returned("getRequiredForms") /\ PurchaseType = "new" /\ IsClosing
  /\ Listed(ret, "oil_changes_form")

\* C5: with trade_in = true the list contains payoff_authorization with
\* reason "Has Trade-In", in every stage including closing; with
\* trade_in = false payoff_authorization is not listed.
C5_PayoffAuthorization ==
  Returned("getRequiredForms") =>
     IF TradeIn
       THEN ReasonsOf(ret, "payoff_authorization") = {"Has Trade-In"}
       ELSE ~Listed(ret, "payoff_authorization")

C5_Witness ==
  /\ Returned("getRequiredForms") /\ TradeIn /\ IsClosing
  /\ Listed(ret, "payoff_authorization")

AlwaysIds == {"delivery_report", "privacy_policy", "deal_check_list"}

\* C6: delivery_report, privacy_policy and deal_check_list are listed
\* exactly when the stage is closing, each then with reason "Required for
\* Sale"; the list of a closing profile is these forms, the closing-tagged
\* forms of the catalog and the conditional forms that apply.
C6_AlwaysForms ==
  Returned("getRequiredForms") =>
     /\ \A id \in AlwaysIds :
          /\ Listed(ret, id) <=> IsClosing
          /\ Listed(ret, id) => ReasonsOf(ret, id) = {"Required for Sale"}
     /\ IsClosing =>
          { ret[i].form.id : i \in 1..Len(ret) } =
             AlwaysIds
               \cup { ALL_FORMS[i].id : i \in { j \in 1..Len(ALL_FORMS) : ALL_FORMS[j].stage = "closing" } }
               \cup (IF PurchaseType = "new" THEN {"oil_changes_form"} ELSE {})
               \cup (IF TradeIn THEN {"payoff_authorization"} ELSE {})

C6_Witness ==
  /\ Returned("getRequiredForms") /\ IsClosing
  /\ \A id \in AlwaysIds : Listed(ret, id)

\* The entries listed by the stage rule: their form's tag is the stage.
StageEntries(list) ==
  { i \in 1..Len(list) : list[i].form.stage = determineStage(customer) }

\* C7 as stated: every form listed because its tag equals the classified
\* stage has the reason "Stage: " followed by the stage identifier as
\* determineStage returns it.
C7_ReasonIsStageIdentifier ==
  Returned("getRequiredForms") =>
     \A i \in StageEntries(ret) : ret[i].reason = "Stage: " \o determineStage(customer)

\* C7 (amended): every form listed because its tag equals the classified
\* stage has the reason "Stage: " followed by the stage identifier with its
\* underscore replaced by a space: "Stage: initial contact",
\* "Stage: financing" or "Stage: closing".
C7_ReasonIsStageLabel ==
  Returned("getRequiredForms") =>
     \A i \in StageEntries(ret) :
        ret[i].reason =
          (CASE determineStage(customer) = "initial_contact" -> "Stage: initial contact"
             [] determineStage(customer) = "financing"       -> "Stage: financing"
             [] determineStage(customer) = "closing"         -> "Stage: closing")

C7_Witness ==
  /\ Returned("getRequiredForms")
  /\ determineStage(customer) = "initial_contact"
  /\ StageEntries(ret) # {}

\* C8: the list has no two entries with the same form id, and its order is
\* the stage-tagged forms in catalog order, then oil_changes_form, then
\* payoff_authorization, then the 'always' forms in catalog order.
C8_NoDuplicatesInsertionOrder ==
  Returned("getRequiredForms") =>
     /\ \A i, j \in 1..Len(ret) : ret[i].form.id = ret[j].form.id => i = j
     /\ ListedIds(ret) =
          (CASE IsClosing   -> << >>
             [] IsFinancing -> <<"credit_application", "reference_sheet">>
             [] OTHER       -> <<"interview_sheet", "test_drive_agreement">>)
          \o (IF PurchaseType = "new" THEN <<"oil_changes_form">> ELSE << >>)
          \o (IF TradeIn THEN <<"payoff_authorization">> ELSE << >>)
          \o (IF IsClosing THEN <<"delivery_report", "privacy_policy", "deal_check_list">>
                           ELSE << >>)

C8_Witness ==
  /\ Returned("getRequiredForms")
  /\ PurchaseType = "new" /\ TradeIn
  /\ Len(ret) = 5

\* The insertions the rules of getRequiredForms make, in the order they
\* make them, as <<id, reason>> pairs; an id occurs once per rule that
\* inserts it.
InsertionLog(cat, c) ==
  LET stage == determineStage(c)
      Ids(fs) == [ i \in 1..Len(fs) |-> fs[i].id ]
      Tag(ids, reason) == [ i \in 1..Len(ids) |-> [ id |-> ids[i], reason |-> reason ] ]
  IN  Tag(Ids(StageForms(cat, stage)),
          CASE stage = "initial_contact" -> "Stage: initial contact"
            [] stage = "financing"       -> "Stage: financing"
            [] stage = "closing"         -> "Stage: closing")
      \o (IF c.vehicle_info.purchase_type = "new"
            THEN Tag(Ids(Find(cat, "oil_changes_form")), "New Vehicle") ELSE << >>)
      \o (IF c.vehicle_info.trade_in
            THEN Tag(Ids(Find(cat, "payoff_authorization")), "Has Trade-In") ELSE << >>)
      \o (IF stage = "closing"
            THEN Tag(Ids(StageForms(cat, "always")), "Required for Sale") ELSE << >>)

FirstInsertion(log, id) ==
  CHOOSE i \in 1..Len(log) : log[i].id = id /\ \A j \in 1..(i - 1) : log[j].id # id

LastInsertion(log, id) ==
  CHOOSE i \in 1..Len(log) : log[i].id = id /\ \A j \in (i + 1)..Len(log) : log[j].id # id

InsertedTwice(log) ==
  { id \in { log[i].id : i \in 1..Len(log) } : FirstInsertion(log, id) # LastInsertion(log, id) }

\* C9: when a form id is inserted by two rules, its entry is at the list
\* position of its first insertion and carries the reason of its last
\* insertion, and the listed ids are those of a single insertion: every
\* inserted id is listed once.
C9_FirstPositionLastReason ==
  Returned("getRequiredForms") =>
     LET log == InsertionLog(catalog, customer)
         logIds == { log[i].id : i \in 1..Len(log) }
     IN  /\ { ret[i].form.id : i \in 1..Len(ret) } = logIds
         /\ Len(ret) = Cardinality(logIds)
         /\ \A i, j \in 1..Len(ret) :
              i < j => FirstInsertion(log, ret[i].form.id) < FirstInsertion(log, ret[j].form.id)
         /\ \A i \in 1..Len(ret) :
              ret[i].reason = log[LastInsertion(log, ret[i].form.id)].reason

\* A form inserted twice, with different reasons, and not the last form
\* to be inserted for the first time.
C9_Witness ==
  /\ Returned("getRequiredForms")
  /\ LET log == InsertionLog(catalog, customer)
     IN  \E id \in InsertedTwice(log) :
            /\ log[FirstInsertion(log, id)].reason # log[LastInsertion(log, id)].reason
            /\ \E k \in 1..Len(ret) :
                 FirstInsertion(log, id) < FirstInsertion(log, ret[k].form.id)

\* The fields the rule table requires for a form id, all non-empty.
RequiredFieldsPresent(formId) ==
  LET p == customer.personal_info
      v == customer.vehicle_info
      f == customer.financial_info
  IN  CASE formId = "interview_sheet" ->
             p.full_name # "" /\ p.phone # "" /\ p.email # ""
        [] formId = "test_drive_agreement" ->
             /\ p.full_name # "" /\ p.drivers_license.number # ""
             /\ p.drivers_license.expiration # ""
             /\ v.interest_vehicle.make # "" /\ v.interest_vehicle.model # ""
        [] formId = "credit_application" ->
             p.full_name # "" /\ p.address.full_address # "" /\ f.employment.employer # ""
        [] formId = "reference_sheet" ->
             p.full_name # "" /\ Len(f.references) >= 1
        [] formId = "delivery_report" ->
             p.full_name # "" /\ v.interest_vehicle.vin # ""
        [] formId = "privacy_policy" -> p.full_name # ""
        [] formId = "deal_check_list" -> p.full_name # ""
        [] formId = "oil_changes_form" ->
             p.full_name # "" /\ v.interest_vehicle.model # ""
        [] formId = "payoff_authorization" ->
             p.full_name # "" /\ v.trade_vehicle.vin # "" /\ v.trade_vehicle.lien_holder # ""
        [] OTHER -> TRUE

\* C10: isReady is true exactly when every field the rule table requires
\* for the form id is non-empty; an id outside the nine catalog ids is
\* ready with an empty warning list.
C10_ReadyIffRequiredPresent ==
  Returned("getFormReadiness") =>
     /\ ret.isReady <=> RequiredFieldsPresent(call.formId)
     /\ call.formId \notin CatalogIds => ret = [ isReady |-> TRUE, warnings |-> << >> ]

\* test_drive_agreement with everything but the vehicle model present.
C10_Witness ==
  /\ Returned("getFormReadiness") /\ call.formId = "test_drive_agreement"
  /\ FullName # "" /\ LicenseNumber # ""
  /\ customer.personal_info.drivers_license.expiration # ""
  /\ customer.vehicle_info.interest_vehicle.make # ""
  /\ customer.vehicle_info.interest_vehicle.model = ""
  /\ ~ret.isReady

\* The warning messages of a document's rule, in rule order.
RuleMessages(formId) ==
  CASE formId = "interview_sheet" ->
         << "Missing customer name.", "Missing phone number.", "Missing email address." >>
    [] formId = "test_drive_agreement" ->
         << "Missing customer name.", "Missing driver's license number.",
            "Missing license expiration date.", "Missing vehicle of interest." >>
    [] formId = "credit_application" ->
         << "Missing customer name.", "Missing customer address.",
            "Missing employment information." >>
    [] formId = "reference_sheet" ->
         << "Missing customer name.", "At least one reference is required." >>
    [] formId = "delivery_report" ->
         << "Missing customer name.", "Missing VIN for vehicle of interest." >>
    [] formId \in {"privacy_policy", "deal_check_list"} ->
         << "Missing customer name." >>
    [] formId = "oil_changes_form" ->
         << "Missing customer name.", "Missing vehicle model." >>
    [] formId = "payoff_authorization" ->
         << "Missing customer name.", "Missing trade-in vehicle VIN.",
            "Missing trade-in lien holder." >>
    [] OTHER -> << >>

\* The check a warning message stands for, failed on the current profile.
CheckFailed(msg) ==
  LET p == customer.personal_info
      v == customer.vehicle_info
      f == customer.financial_info
  IN  CASE msg = "Missing customer name."              -> p.full_name = ""
        [] msg = "Missing phone number."               -> p.phone = ""
        [] msg = "Missing email address."              -> p.email = ""
        [] msg = "Missing driver's license number."    -> p.drivers_license.number = ""
        [] msg = "Missing license expiration date."    -> p.drivers_license.expiration = ""
        [] msg = "Missing vehicle of interest."        ->
             v.interest_vehicle.make = "" \/ v.interest_vehicle.model = ""
        [] msg = "Missing customer address."           -> p.address.full_address = ""
        [] msg = "Missing employment information."     -> f.employment.employer = ""
        [] msg = "At least one reference is required." -> Len(f.references) = 0
        [] msg = "Missing VIN for vehicle of interest." -> v.interest_vehicle.vin = ""
        [] msg = "Missing vehicle model."              -> v.interest_vehicle.model = ""
        [] msg = "Missing trade-in vehicle VIN."       -> v.trade_vehicle.vin = ""
        [] msg = "Missing trade-in lien holder."       -> v.trade_vehicle.lien_holder = ""

\* C11: the warning list holds the message of every failed check of the
\* document's rule, once each and in rule order, so its length is the
\* number of failed checks; isReady is true iff the list is empty.
C11_EveryFailedCheckReported ==
  Returned("getFormReadiness") =>
     LET msgs == RuleMessages(call.formId)
     IN  /\ ret.warnings = SelectSeq(msgs, CheckFailed)
         /\ Len(ret.warnings) =
              Cardinality({ i \in 1..Len(msgs) : CheckFailed(msgs[i]) })
         /\ ret.isReady <=> ret.warnings = << >>

\* test_drive_agreement on a profile that fails all four of its checks.
C11_Witness ==
  /\ Returned("getFormReadiness") /\ call.formId = "test_drive_agreement"
  /\ FullName = "" /\ LicenseNumber = ""
  /\ customer.personal_info.drivers_license.expiration = ""
  /\ customer.vehicle_info.interest_vehicle.make = ""
  /\ customer.vehicle_info.interest_vehicle.model = ""
  /\ Len(ret.warnings) = 4

ManualEntryNames == { "SalePrice", "DownPayment", "PayoffAmount", "AnnualIncome", "SSN" }

\* The value a field of a preview call resolved to: through the handler of
\* a special key, through the profile for a path, '' without a mapping.
ResolvedValue(c, pdfField) ==
  ResolveValue(MappedPath(c.mappings, pdfField), modalCustomer, c.now)

\* C13: the display value of a field that is not on the manual-entry list is
\* "---" when the resolved value is undefined, null, '' or the number 0,
\* "Yes"/"No" when it is true/false, and its string conversion otherwise.
C13_DisplayValue ==
  \A k \in 1..Len(previewCalls) :
    LET c == previewCalls[k]
    IN  \A i \in 1..Len(c.filledData) :
          LET e == c.filledData[i]
              x == ResolvedValue(c, e.pdfField)
          IN  e.pdfField \notin ManualEntryNames =>
                e.value =
                  (CASE x.t \in {"undefined", "null"}    -> "---"
                     [] x.t = "string" /\ x.v = ""       -> "---"
                     [] x.t = "number" /\ x.v = 0        -> "---"
                     [] x.t = "boolean"                  -> IF x.v THEN "Yes" ELSE "No"
                     [] x.t = "string" /\ x.v # ""       -> x.v
                     [] x.t = "number" /\ x.v # 0        -> ToString(x.v)
                     [] x.t = "object"                   -> "[object Object]"
                     [] x.t = "array"                    -> JsToString(x))

\* A field mapped to a numeric leaf that holds 0.
C13_Witness ==
  \E k \in 1..Len(previewCalls) :
    LET c == previewCalls[k]
    IN  \E i \in 1..Len(c.filledData) :
          /\ c.filledData[i].pdfField \notin ManualEntryNames
          /\ ResolvedValue(c, c.filledData[i].pdfField).t = "number"
          /\ ResolvedValue(c, c.filledData[i].pdfField).v = 0
          /\ c.filledData[i].value = "---"

\* The mapping restricted to the names of a field list.
OnlyFields(mappings, fields) ==
  [ n \in { m \in DOMAIN mappings : \E i \in 1..Len(fields) : fields[i] = m } |-> mappings[n] ]

\* C14: the list has one entry per discovered field, in the order of the
\* discovered fields (as getDiscoveredFields returned them); a field not on
\* the manual-entry list gets "---" and "Not Mapped" when the mapping (as
\* getMappingsForForm returned it) has no entry for it, and the mapped path
\* or special key as its provenance when it has; entries of the mapping for
\* other names change nothing.
C14_OneEntryPerField ==
  \A k \in 1..Len(previewCalls) :
    LET c == previewCalls[k]
    IN  /\ Len(c.filledData) = Len(c.discoveredFields)
        /\ \A i \in 1..Len(c.filledData) :
             LET e == c.filledData[i]
             IN  /\ e.pdfField = c.discoveredFields[i]
                 /\ e.pdfField \notin ManualEntryNames =>
                      IF e.pdfField \in DOMAIN c.mappings /\ c.mappings[e.pdfField] # ""
                        THEN e.sourcePath = c.mappings[e.pdfField]
                        ELSE e.value = "---" /\ e.sourcePath = "Not Mapped"
        /\ c.filledData =
             FillFields(<< >>, c.discoveredFields,
                        OnlyFields(c.mappings, c.discoveredFields), modalCustomer, c.now)

\* Two fields, the first without a mapping entry, and an entry saved for a
\* name that is not a field.
C14_Witness ==
  \E k \in 1..Len(previewCalls) :
    LET c == previewCalls[k]
    IN  /\ Len(c.discoveredFields) = 2
        /\ c.discoveredFields[1] = "CustomerName"
        /\ "CustomerName" \notin DOMAIN c.mappings
        /\ StrayFieldName \in DOMAIN c.mappings
        /\ c.filledData[1].sourcePath = "Not Mapped"
        /\ c.filledData[2].sourcePath = "__CURRENT_DATE__"

\* Two calls with the same form id on the same inputs: the mapping and the
\* field list are unchanged (the profile never changes while the modal is
\* open).
SameInputs(c1, c2) ==
  /\ c1.formId = c2.formId
  /\ c1.mappings = c2.mappings
  /\ c1.discoveredFields = c2.discoveredFields

\* Some field the call fills is mapped to the current date.
UsesCurrentDate(c) ==
  \E i \in 1..Len(c.discoveredFields) :
    /\ c.discoveredFields[i] \notin ManualEntryNames
    /\ MappedPath(c.mappings, c.discoveredFields[i]) = "__CURRENT_DATE__"

UsesSpecialValue(c) ==
  \E i \in 1..Len(c.discoveredFields) :
    /\ c.discoveredFields[i] \notin ManualEntryNames
    /\ MappedPath(c.mappings, c.discoveredFields[i]) \in MAPPABLE_SPECIAL_KEYS

\* C15 as stated: two calls with the same form id, profile, mapping and
\* discovered fields return the same list, also with fields mapped to
\* special values.
C15_SameInputsSameList ==
  \A j, k \in 1..Len(previewCalls) :
    SameInputs(previewCalls[j], previewCalls[k]) =>
      previewCalls[j].filledData = previewCalls[k].filledData

\* C15 (amended): two calls with the same form id, profile, mapping and
\* discovered fields return the same list when they run on the same
\* calendar date or no field is mapped to __CURRENT_DATE__.
C15_SameInputsSameDate ==
  \A j, k \in 1..Len(previewCalls) :
    ( /\ SameInputs(previewCalls[j], previewCalls[k])
      /\ previewCalls[j].now = previewCalls[k].now \/ ~UsesCurrentDate(previewCalls[j]) ) =>
      previewCalls[j].filledData = previewCalls[k].filledData

\* Two calls on different days, with a field mapped to a special value
\* other than the date.
C15_Witness ==
  /\ Len(previewCalls) = 2
  /\ SameInputs(previewCalls[1], previewCalls[2])
  /\ previewCalls[1].now # previewCalls[2].now
  /\ UsesSpecialValue(previewCalls[1]) /\ ~UsesCurrentDate(previewCalls[1])
  /\ previewCalls[1].filledData = previewCalls[2].filledData

\* A generatePdfBytes call the handler is still waiting for, or has not
\* yet taken the result of.
Current(j) == modal.pc = "await" /\ j = modal.i

\* The entries of a log that are write attempts.
Attempts(log) == SelectSeq(log, LAMBDA e : e.op # "flatten")

\* The first k preview entries whose value is neither '---' nor
\* '[Manual Entry]'.
Writable(previewData, k) ==
  SelectSeq(SubSeq(previewData, 1, k), LAMBDA f : f.value \notin { "---", "[Manual Entry]" })

FieldNames(s) == [ i \in 1..Len(s) |-> s[i].pdfField ]

\* C12: in every generatePdfBytes call the preview entry of a field on the
\* manual-entry list is "[Manual Entry]" with provenance "N/A", whatever the
\* mapping and the profile hold, and no write to such a field is attempted.
C12_ManualEntryNeverWritten ==
  \A j \in 1..Len(gen) :
    /\ \A i \in 1..Len(gen[j].previewData) :
         gen[j].previewData[i].pdfField \in ManualEntryNames =>
           /\ gen[j].previewData[i].value = "[Manual Entry]"
           /\ gen[j].previewData[i].sourcePath = "N/A"
    /\ \A n \in 1..Len(gen[j].log) : gen[j].log[n].pdfField \notin ManualEntryNames
    /\ \A n \in 1..Len(gen[j].bytes) : gen[j].bytes[n].pdfField \notin ManualEntryNames

\* A call has returned for a template with the SSN field, which is mapped to
\* a known customer name, after writing another field.
C12_Witness ==
  \E j \in 1..Len(gen) :
    /\ gen[j].pc = "returned"
    /\ "SSN" \in DOMAIN pdfTemplates[gen[j].form.id].mappings
    /\ customer.personal_info.full_name # ""
    /\ \E i \in 1..Len(gen[j].previewData) : gen[j].previewData[i].pdfField = "SSN"
    /\ gen[j].bytes # << >>

C17_WriteFailureDoesNotAbort ==
  \A j \in 1..Len(gen) :
    /\ gen[j].pc = "threw" => gen[j].log = << >>
    /\ gen[j].pc = "fill" =>
         /\ \A n \in 1..Len(gen[j].log) : gen[j].log[n].op # "flatten"
         /\ ENABLED (WriteField \/ Flatten)
    /\ (Current(j) /\ gen[j].pc \in { "save", "returned" }) =>
         /\ gen[j].k = Len(gen[j].previewData)
         /\ FieldNames(Attempts(gen[j].log))
              = FieldNames(Writable(gen[j].previewData, Len(gen[j].previewData)))
         /\ Len(gen[j].log) = Len(Attempts(gen[j].log)) + 1
         /\ gen[j].log[Len(gen[j].log)].op = "flatten"
    /\ gen[j].pc = "save" => ENABLED Save
    /\ (Current(j) /\ gen[j].pc = "returned") => gen[j].bytes = Filled(gen[j].log)

\* A call returned after a write that threw was followed by a write that
\* went through.
C17_Witness ==
  \E j \in 1..Len(gen) :
    /\ gen[j].pc = "returned"
    /\ \E m, n \in 1..Len(gen[j].log) :
         /\ m < n
         /\ gen[j].log[m].threw
         /\ gen[j].log[n].op = "setText" /\ ~gen[j].log[n].threw
    /\ gen[j].bytes # << >>

\* The template of a call's form is missing or could not be fetched.
TemplateMissing(gcall) ==
  \/ gcall.fetch.dbError
  \/ gcall.fetch.storageError
  \/ gcall.form.id \notin DOMAIN pdfTemplates
  \/ pdfTemplates[gcall.form.id].storage_path = ""

EndsWith(s, suffix) ==
  Len(s) >= Len(suffix) /\ SubSeq(s, Len(s) - Len(suffix) + 1, Len(s)) = suffix

\* C18: a call whose template is missing or could not be fetched has thrown
\* an error that names the form, has attempted no write, has not flattened
\* and has returned no bytes.
C18_MissingTemplateFails ==
  \A j \in 1..Len(gen) :
    (gen[j].pc # "getTemplateFile" /\ TemplateMissing(gen[j])) =>
      /\ gen[j].pc = "threw"
      /\ gen[j].error = "Template file not found for form: " \o forms[j].name
      /\ EndsWith(gen[j].error, gen[j].form.name)
      /\ gen[j].log = << >>
      /\ gen[j].bytes = << >>

\* The download of an uploaded template failed for the second document.
C18_Witness ==
  /\ Len(gen) = 2
  /\ gen[2].pc = "threw"
  /\ gen[2].fetch.storageError /\ ~gen[2].fetch.dbError
  /\ pdfTemplates[gen[2].form.id].storage_path # ""

\* C19: the calls are made for the forms in their order; when a call is
\* made every earlier one has returned; and while the handler waits for the
\* call of document j the progress label is the one of document j.
C19_OneDocumentAtATime ==
  /\ Len(gen) <= Len(forms)
  /\ \A j \in 1..Len(gen) :
       /\ gen[j].form = forms[j]
       /\ j < Len(gen) => gen[j].pc = "returned"
       /\ ~Settled(gen[j]) =>
            /\ Current(j)
            /\ modal.generationMessage =
                 "Generating " \o ToString(j) \o "/" \o ToString(Len(forms)) \o ": "
                   \o forms[j].name \o "..."

\* The third document is being filled.
C19_Witness ==
  /\ Len(gen) = 3
  /\ gen[3].pc = "fill"
  /\ gen[3].log # << >>

\* C20: when a call has thrown no later call is made, no archive is built
\* and nothing is downloaded, and the handler either is about to catch the
\* error or has ended in the error state with its message; an archive is
\* built only when a call for every form has returned, and it holds one
\* entry per form, in order.
C20_NoPartialArchive ==
  /\ \A k \in 1..Len(gen) :
       gen[k].pc = "threw" =>
         /\ Len(gen) = k
         /\ modal.zipBlob = << >> /\ modal.download = ""
         /\ modal.pc \in { "await", "done" }
         /\ modal.pc = "await" => ENABLED Catch
         /\ modal.pc = "done" =>
              /\ modal.generationStatus = "error"
              /\ modal.generationMessage = "Error: " \o gen[k].error
  /\ (modal.download # "" \/ modal.zipBlob # << >> \/ modal.generationStatus = "success") =>
       /\ Len(gen) = Len(forms)
       /\ \A j \in 1..Len(gen) : gen[j].pc = "returned"
       /\ Len(modal.zipBlob) = Len(forms)
       /\ \A j \in 1..Len(forms) : modal.zipBlob[j].value.of = forms[j].id

\* The second document failed after the first was put into the zip: the
\* batch is in the error state and nothing was built.
C20_Witness ==
  /\ Len(gen) = 2
  /\ gen[1].pc = "returned" /\ gen[2].pc = "threw"
  /\ Len(modal.zip) = 1
  /\ modal.generationStatus = "error"
  /\ modal.zipBlob = << >>

(***************************************************************************)
(* Properties of getValueByPath, the flat keys and deepMerge               *)
(***************************************************************************)

\* A node a path can be walked through.
Traversable(x) == x.t \in { "object", "array" }

\* The walk of `parts` from x meets a node that is not traversable before
\* its last segment is used, or a segment that is missing.
RECURSIVE Broken(_, _)
Broken(x, parts) ==
  /\ parts # << >>
  /\ \/ ~Traversable(x)
     \/ Get(x, Head(parts)).t = "undefined"
     \/ Broken(Get(x, Head(parts)), Tail(parts))

\* C21: getValueByPath returns undefined whenever a segment of the path is
\* missing or the node reached before the last segment is not traversable
\* (a string, a number, a boolean, null).
C21_UndefinedWhenBroken ==
  util.op = "getValueByPath" =>
    (Broken(util.args[1], split(util.args[2].v)) => util.result.t = "undefined")

\* The value at the path `parts` of x, walking through objects only.
RECURSIVE At(_, _)
At(x, parts) ==
  IF parts = << >> THEN x
  ELSE IF x.t = "object" /\ Head(parts) \in DOMAIN x.v
    THEN At(x.v[Head(parts)], Tail(parts))
  ELSE Undefined

StartsWith(s, prefix) ==
  Len(s) >= Len(prefix) /\ SubSeq(s, 1, Len(prefix)) = prefix

\* C22: the flat keys of the default profile are paths to leaves (never to an
\* object, never to nothing), financial_info.references is one of them and
\* no key leads into it, and every key resolves to a defined value on every
\* profile whose leaves are all populated.
C22_FlatKeysResolve ==
  util.op = "generateFlatKeys" =>
    LET keys == util.result.v
    IN  /\ \A i \in 1..Len(keys) :
             At(DefaultProfile, split(keys[i].v)).t \in { "string", "number", "boolean", "array" }
        /\ \E i \in 1..Len(keys) : keys[i].v = "financial_info.references"
        /\ \A i \in 1..Len(keys) : ~StartsWith(keys[i].v, "financial_info.references.")
        /\ \A i \in 1..Len(keys) :
             \A s \in 1..Len(FullTexts), b \in 1..Len(FullFlags), len \in 1..(MaxRefs + 1) :
               getValueByPath(FullProfile(s, b, len), keys[i].v).t # "undefined"

\* The flat keys were computed: the list and the nested leaves are in them.
C22_Witness ==
  /\ util.op = "generateFlatKeys"
  /\ \E i \in 1..Len(util.result.v) : util.result.v[i].v = "financial_info.references"
  /\ \E i \in 1..Len(util.result.v) : util.result.v[i].v = "personal_info.address.zip"
  /\ \E i \in 1..Len(util.result.v) : util.result.v[i].v = "vehicle_info.trade_in"

\* A leaf that holds something: a non-empty string, a number other than 0,
\* a non-empty list.
NonEmptyLeaf(v) ==
  \/ v.t = "string" /\ v.v # ""
  \/ v.t = "number" /\ v.v # 0
  \/ v.t = "array" /\ Len(v.v) > 0

\* An incoming value that says nothing: undefined, null, '', 0 or [].
EmptyIncoming(v) ==
  \/ v.t \in { "undefined", "null" }
  \/ v.t = "string" /\ v.v = ""
  \/ v.t = "number" /\ v.v = 0
  \/ v.t = "array" /\ Len(v.v) = 0

\* Two leaves hold the same value.
SameLeaf(a, b) ==
  /\ a.t = b.t
  /\ a.t \in { "string", "number", "boolean", "array" } => a.v = b.v

\* The paths of the leaves of a profile, the optional is_expired included.
LeafPaths ==
  generateFlatKeys(DefaultProfile, "") \o << "personal_info.drivers_license.is_expired" >>

\* C23: a merge never replaces a non-empty leaf of the stored profile by an
\* empty, zero or undefined value: where the stored leaf is non-empty the
\* merged leaf is non-empty, and it is the stored value when the incoming
\* value is undefined, null, '', 0 or [].
C23_NonEmptyLeafSurvives ==
  util.op = "deepMerge" =>
    \A i \in 1..Len(LeafPaths) :
      LET parts == split(LeafPaths[i])
          stored == At(util.args[1], parts)
          incoming == At(util.args[2], parts)
          merged == At(util.result, parts)
      IN  NonEmptyLeaf(stored) =>
            /\ NonEmptyLeaf(merged)
            /\ EmptyIncoming(incoming) => SameLeaf(merged, stored)

\* C24: a merge works field by field: every non-empty leaf of the partial
\* update is at the same path of the result, also when the stored profile
\* lacks the object around it, and every stored leaf the partial does not
\* mention is unchanged.
C24_FieldByField ==
  util.op = "deepMerge" =>
    \A i \in 1..Len(LeafPaths) :
      LET parts == split(LeafPaths[i])
          stored == At(util.args[1], parts)
          incoming == At(util.args[2], parts)
          merged == At(util.result, parts)
      IN  /\ NonEmptyLeaf(incoming) => SameLeaf(merged, incoming)
          /\ incoming.t = "undefined" => SameLeaf(merged, stored)

(***************************************************************************)
(* Properties of the chat application                                      *)
(***************************************************************************)

\* C25: a storage failure is propagated to the caller: a call of
\* updateCustomerInStorage whose read of the customer failed has thrown; it
\* has not returned null as if there were no such customer.
C25_ReadFailurePropagates ==
  \A j \in 1..Len(tasks) :
    tasks[j].fetchError => tasks[j].outcome = "threw"

\* C26: once two updates of the same customer have both been written, the
\* stored profile holds the non-empty leaves of both partial updates.
C26_BothUpdatesKept ==
  \A j \in 1..Len(tasks), k \in 1..Len(tasks) :
    (/\ j # k
     /\ tasks[j].customerId = tasks[k].customerId
     /\ tasks[j].outcome = "data" /\ tasks[k].outcome = "data") =>
      \A i \in 1..Len(LeafPaths) :
        LET parts == split(LeafPaths[i])
            incoming == At(tasks[j].partial, parts)
        IN  NonEmptyLeaf(incoming) =>
              SameLeaf(At(db.customers[tasks[j].customerId], parts), incoming)

\* C27: when no handler is running any more, isAiThinking is false again:
\* the chat input is not left disabled.
C27_ThinkingEnds ==
  InFlight = {} => ~app.isAiThinking

\* C28: when every load and handler has settled, the messages in the chat
\* are messages of the selected customer only.
C28_OnlySelectedCustomersMessages ==
  InFlight = {} =>
    \A i \in 1..Len(app.messages) : app.messages[i].of = app.selectedCustomerId

\* C29: a handler answers "Profile updated." or "Driver's license scanned
\* and profile updated..." (the answer goes to the chat at once and to the
\* message store next) only if its update of the stored profile was written.
C29_ConfirmedOnlyIfUpdated ==
  \A j \in 1..Len(tasks) :
    tasks[j].reply \in { ProfileUpdatedText, ScannedText, ExpiredText } =>
      tasks[j].outcome = "data"

(***************************************************************************)
(* Properties of the preview modal's generation status                     *)
(***************************************************************************)

\* C30: the generation status only steps from idle to generating and from
\* generating to success or error, so it never leaves success or error and
\* a batch starts from idle only, at most once per modal; and the modal is
\* never closed while the status is generating.
C30_StatusSteps ==
  [][ /\ \/ modal.generationStatus' = modal.generationStatus
         \/ modal.generationStatus = "idle" /\ modal.generationStatus' = "generating"
         \/ /\ modal.generationStatus = "generating"
            /\ modal.generationStatus' \in { "success", "error" }
      /\ (~modal.closed /\ modal.closed') => modal.generationStatus # "generating"
      /\ (modal.pc \in { "idle", "done" } /\ modal.pc' = "loop") =>
           modal.generationStatus = "idle" ]_vars

\* A batch has ended in the error state and the modal is still open: the
\* Generate button is disabled, the close buttons are not.
C30_Witness ==
  /\ modal.generationStatus = "error"
  /\ modal.pc = "done"
  /\ ~modal.closed
  /\ ~ENABLED HandleGenerate
  /\ ENABLED CloseModal

====
